---- MODULE Spec2Model ----
(***************************************************************************)
(* Voice pipeline of happyrao78/web_voice_pipeline.                        *)
(*                                                                         *)
(* The module models                                                       *)
(*   - the playback ring buffer of src/js/audio/worklets/playback-worklet.js*)
(*     (PlaybackWorkletProcessor, first class of the file),                *)
(*   - the main-thread playback wrapper src/js/audio/audioPlayback.js,     *)
(*   - the turn orchestrator src/js/main.js (VoiceAssistant, lines 1-415), *)
(*   - the transcription client src/unnamed/part_004 (STTService),         *)
(*   - the synthesis client src/js/services/ttsService.js (TTSService),    *)
(*   - the wake-word detector src/unnamed/part_002 (WakeWordDetector),     *)
(*   - the proxy src/proxy_server.js as far as the clients observe it.     *)
(*                                                                         *)
(* Every action is one run-to-completion segment of the JavaScript event   *)
(* loop: an event handler up to its first await on the network or on a     *)
(* timer, or the continuation after such an await.                         *)
(*                                                                         *)
(* Abstractions.  The awaits inside cleanup(), WakeWordDetector.start(),   *)
(* WakeWordDetector.stop() and AudioPlayback.initialize() complete within  *)
(* the step that reaches them, so the model has fewer interleavings than   *)
(* the program.  One start() is followed at a time (the start button is    *)
(* disabled while it runs, unless stop() re-enables it).  Every            *)
(* STTService.connect() takes a fresh socket; a socket whose close event   *)
(* has been handled is not looked at again.  Captured frames are handled   *)
(* in bursts of equal frames in the orchestrator and one by one in the     *)
(* end-of-turn detector.                                                   *)
(***************************************************************************)
EXTENDS Integers, Sequences, FiniteSets, TLC

(***************************************************************************)
(* Sizes.  The ring's capacity, its jitter threshold and the render        *)
(* quantum are 32000, 1920 and 128 samples in the source; the model is     *)
(* parametric in them and is checked at small values that keep their       *)
(* order (quantum < jitter threshold < capacity).                          *)
(***************************************************************************)
bufferSize == 6
jitterBufferSize == 3
BlockSize == 2
\* largest chunk written in one call when the ring is exercised on its own
MaxWrite == 8
\* worklet messages that may wait for the main thread at one time
MaxEvents == 2
\* sockets the transcription client creates in one run
MaxSockets == 2
\* wake-word detections followed in one run
MaxTurns == 1
\* the turns of a run in which one turn follows another
MaxTimerTurns == 2
\* the transcription sockets of such a run
MaxTurnSockets == 3
\* captured frames handled back to back in one step of the assistant
FramesPerStep == 10
\* transport failures and backend errors injected in one run
MaxFailures == 1
\* audio chunks of one synthesis response and samples per chunk
MaxChunks == 2
MaxChunkLen == 3
\* clicks on the start button followed in one run
MaxStarts == 2
\* the observers count up to this value and stay there
ObsCap == 2
\* the frame of the capture worklet (320 samples in the source), the longest
\* input block handed to it in one call and the samples fed to it in one run
captureBufferSize == 3
MaxBlock == 3
MaxInput == 7
\* the step of the clock and its last value, in ms, when the wake-word
\* detector is exercised on its own
TickMs == 250
MaxClock == 3000
\* speak requests received on one synthesis connection
MaxRequests == 2
\* the largest latency classified, in ms
MaxElapsed == 1600
\* the longest question put to the knowledge base, in characters
MaxText == 7
\* how far beyond full scale the samples converted go, in units
Over == 2
\* audio messages and transcribe requests received on one transcription
\* connection of the proxy
MaxAudio == 4
MaxTranscribes == 3
\* samples written in one run when the ring is exercised on its own
MaxSamples == 10
\* frames of one turn followed when the end-of-turn detector is exercised
\* frame by frame
MaxFrames == 41

\* STTService.constructor
maxReconnectAttempts == 3
chunkBufferSize == 3
\* VoiceAssistant.constructor
silenceDuration == 600
\* config.wakeWord
cooldownMs == 1000
\* config.latency
targetMs == 800
warningMs == 1200
criticalMs == 1500
\* a detector that waits one frame longer
requiredSilenceFramesPlusOne == silenceDuration \div 20 + 1
requiredSilenceFrames == silenceDuration \div 20

Sockets == 1..MaxTurnSockets
Requests == 1..MaxRequests
Turns == 1..MaxTurns

VARIABLES
    \* PlaybackWorkletProcessor (playback-worklet.js)
    audioBuffer, writeIndex, readIndex, samplesAvailable, isPlaying,
    \* the output block of the last call of process()
    channelData,
    \* CaptureWorkletProcessor (capture-worklet.js): buffer, bufferIndex, the
    \* frames it has posted; and, as observer, the samples it has been fed
    buffer, bufferIndex, capPosted, capInput,
    \* messages posted by the worklet, not yet handled on the main thread
    pbEvents,
    \* AudioPlayback (audioPlayback.js): workletNode # null, isPlaying
    pbNode, pbIsPlaying,
    \* AudioCapture (audioCapture.js): audioContext # null, workletNode # null,
    \* isCapturing
    capCtx, capReady, isCapturing,
    \* WakeWordDetector (part_002): isListening, isInitialized, cooldownUntil;
    \* the clock Date.now() reads, in ms, and as observer the times at which
    \* the wake callback was invoked and the detections ignored
    wwIsListening, wwIsInitialized, cooldownUntil, now, wakeLog,
    \* VoiceAssistant (main.js)
    isRunning, isWaitingForWakeWord, isProcessing,
    hasSpeech, silenceTriggered, audioStreamingStopped, consecutiveSilenceFrames,
    speechEndTime, responseStartTime,
    uiStatus, controls, startPc,
    \* STTService (part_004): ws, isConnected, reconnectAttempts, callbacks set,
    \* audioChunkBuffer.length; the sockets it has created and the proxy behind them
    sttWs, sttIsConnected, reconnectAttempts, sttCallbacks, audioChunkBuffer, sock,
    \* TTSService (ttsService.js): socket, isConnected, callbacks set; the proxy's
    \* synthesis jobs, one per turn that asked for one
    ttsWs, ttsIsConnected, ttsCallbacks, ttsJob,
    \* pending timers
    maxTimers, errTimers, endTimers, reconnTimers,
    \* observers: they record what happened and are read by no handler
    lastWrite, turn, sessions, failures, starts, obs,
    \* observer of the ring when it is exercised on its own: samples written so
    \* far (the i-th sample written has the value i), the samples read out of
    \* the buffer, whether an overflow or a reset has happened, whether since
    \* the last write or reset a read has asked a primed buffer for more than it
    \* held, and the "ended" messages posted since then
    ringLog,
    \* handleTTSConnection of the proxy (proxy_server.js) on one connection: the
    \* speak requests it is handling (where each stands, the chunks of its
    \* audioContent, the chunks sent) and the messages it has sent, in order
    ttsReq, ttsWire,
    \* UIController: the latency display (whether a value is shown, the value,
    \* the class of the element) and the level of the log line that goes with it
    latencyUi,
    \* KnowledgeBase (knowledgeBase.js): isLoaded, normalizedData (its entries in
    \* insertion order), keywords; and the last question put to getAnswer with
    \* what find logged and returned and what getAnswer returned or threw
    kbIsLoaded, normalizedData, keywords, asked,
    \* observer: the step in which start() has failed and called ui.showError
    \* since the last click on start ("none": it has not)
    startError,
    \* observer of the sample conversions: a Float32 sample, the Int16 it is
    \* converted to and the numerator and denominator of the Float32 that the
    \* playback side makes of that
    pcm,
    \* one transcription connection of the proxy on its own
    conn

ringVars == <<audioBuffer, writeIndex, readIndex, samplesAvailable, isPlaying>>
vars == <<audioBuffer, writeIndex, readIndex, samplesAvailable, isPlaying,
          channelData, buffer, bufferIndex, capPosted, capInput, pbEvents,
          pbNode, pbIsPlaying, capCtx, capReady, isCapturing,
          wwIsListening, wwIsInitialized, cooldownUntil, now, wakeLog,
          isRunning, isWaitingForWakeWord, isProcessing,
          hasSpeech, silenceTriggered, audioStreamingStopped, consecutiveSilenceFrames,
          speechEndTime, responseStartTime, uiStatus, controls, startPc,
          sttWs, sttIsConnected, reconnectAttempts, sttCallbacks, audioChunkBuffer, sock,
          ttsWs, ttsIsConnected, ttsCallbacks, ttsJob,
          maxTimers, errTimers, endTimers, reconnTimers,
          lastWrite, turn, sessions, failures, starts, obs, ringLog,
          ttsReq, ttsWire,
          latencyUi,
          kbIsLoaded, normalizedData, keywords, asked,
          startError,
          pcm,
          conn>>

(***************************************************************************)
(* The state as one record, so that a handler is a function from state to  *)
(* state and the calls it makes compose.                                   *)
(***************************************************************************)
World ==
    [audioBuffer |-> audioBuffer, channelData |-> channelData, ringLog |-> ringLog,
     buffer |-> buffer, bufferIndex |-> bufferIndex, capPosted |-> capPosted,
     capInput |-> capInput,
     writeIndex |-> writeIndex, readIndex |-> readIndex,
     samplesAvailable |-> samplesAvailable, isPlaying |-> isPlaying,
     pbEvents |-> pbEvents, pbNode |-> pbNode, pbIsPlaying |-> pbIsPlaying,
     capCtx |-> capCtx, capReady |-> capReady, isCapturing |-> isCapturing,
     wwIsListening |-> wwIsListening, wwIsInitialized |-> wwIsInitialized,
     cooldownUntil |-> cooldownUntil, now |-> now, wakeLog |-> wakeLog,
     isRunning |-> isRunning, isWaitingForWakeWord |-> isWaitingForWakeWord,
     isProcessing |-> isProcessing, hasSpeech |-> hasSpeech,
     silenceTriggered |-> silenceTriggered,
     audioStreamingStopped |-> audioStreamingStopped,
     consecutiveSilenceFrames |-> consecutiveSilenceFrames,
     speechEndTime |-> speechEndTime, responseStartTime |-> responseStartTime,
     uiStatus |-> uiStatus, controls |-> controls, startPc |-> startPc,
     sttWs |-> sttWs, sttIsConnected |-> sttIsConnected,
     reconnectAttempts |-> reconnectAttempts, sttCallbacks |-> sttCallbacks,
     audioChunkBuffer |-> audioChunkBuffer, sock |-> sock,
     ttsWs |-> ttsWs, ttsIsConnected |-> ttsIsConnected,
     ttsCallbacks |-> ttsCallbacks, ttsJob |-> ttsJob,
     maxTimers |-> maxTimers, errTimers |-> errTimers, endTimers |-> endTimers,
     reconnTimers |-> reconnTimers,
     lastWrite |-> lastWrite, turn |-> turn, sessions |-> sessions,
     failures |-> failures, starts |-> starts, obs |-> obs,
     ttsReq |-> ttsReq, ttsWire |-> ttsWire,
     latencyUi |-> latencyUi,
     kbIsLoaded |-> kbIsLoaded, normalizedData |-> normalizedData, keywords |-> keywords, asked |-> asked,
     startError |-> startError,
     pcm |-> pcm,
     conn |-> conn]

Commit(S) ==
    /\ audioBuffer' = S.audioBuffer
    /\ channelData' = S.channelData
    /\ ringLog' = S.ringLog
    /\ buffer' = S.buffer
    /\ bufferIndex' = S.bufferIndex
    /\ capPosted' = S.capPosted
    /\ capInput' = S.capInput
    /\ writeIndex' = S.writeIndex
    /\ readIndex' = S.readIndex
    /\ samplesAvailable' = S.samplesAvailable
    /\ isPlaying' = S.isPlaying
    /\ pbEvents' = S.pbEvents
    /\ pbNode' = S.pbNode
    /\ pbIsPlaying' = S.pbIsPlaying
    /\ capCtx' = S.capCtx
    /\ capReady' = S.capReady
    /\ isCapturing' = S.isCapturing
    /\ wwIsListening' = S.wwIsListening
    /\ wwIsInitialized' = S.wwIsInitialized
    /\ cooldownUntil' = S.cooldownUntil
    /\ now' = S.now
    /\ wakeLog' = S.wakeLog
    /\ isRunning' = S.isRunning
    /\ isWaitingForWakeWord' = S.isWaitingForWakeWord
    /\ isProcessing' = S.isProcessing
    /\ hasSpeech' = S.hasSpeech
    /\ silenceTriggered' = S.silenceTriggered
    /\ audioStreamingStopped' = S.audioStreamingStopped
    /\ consecutiveSilenceFrames' = S.consecutiveSilenceFrames
    /\ speechEndTime' = S.speechEndTime
    /\ responseStartTime' = S.responseStartTime
    /\ uiStatus' = S.uiStatus
    /\ controls' = S.controls
    /\ startPc' = S.startPc
    /\ sttWs' = S.sttWs
    /\ sttIsConnected' = S.sttIsConnected
    /\ reconnectAttempts' = S.reconnectAttempts
    /\ sttCallbacks' = S.sttCallbacks
    /\ audioChunkBuffer' = S.audioChunkBuffer
    /\ sock' = S.sock
    /\ ttsWs' = S.ttsWs
    /\ ttsIsConnected' = S.ttsIsConnected
    /\ ttsCallbacks' = S.ttsCallbacks
    /\ ttsJob' = S.ttsJob
    /\ maxTimers' = S.maxTimers
    /\ errTimers' = S.errTimers
    /\ endTimers' = S.endTimers
    /\ reconnTimers' = S.reconnTimers
    /\ lastWrite' = S.lastWrite
    /\ turn' = S.turn
    /\ sessions' = S.sessions
    /\ failures' = S.failures
    /\ starts' = S.starts
    /\ obs' = S.obs
    /\ conn' = S.conn
    /\ pcm' = S.pcm
    /\ startError' = S.startError
    /\ kbIsLoaded' = S.kbIsLoaded
    /\ normalizedData' = S.normalizedData
    /\ keywords' = S.keywords
    /\ asked' = S.asked
    /\ latencyUi' = S.latencyUi
    /\ ttsReq' = S.ttsReq
    /\ ttsWire' = S.ttsWire

\* the observers at the start of a session: calls of TTSService.speak,
\* 'transcribe' messages sent, end-of-speech timestamps taken, error events,
\* blank transcripts handled, synthesis audio handled outside the session that
\* asked for it; frames analysed by the end-of-turn detector, the last of them
\* that was speech and the one at which the silence timeout was signalled;
\* and, of the frames that carry a number (f > 0): those handed to
\* STTService.sendAudio, those in its audioChunkBuffer, those in the
\* audioBuffer of the proxy behind each socket, and those the proxy has passed
\* to the transcription backend; and the values of reconnectAttempts at
\* which a transport error of the transcription socket was passed to onError;
\* the latency samples reported and the end-of-speech timestamps they were
\* computed from; and the returns to listening asked for while the turn is
\* open (a call of returnToWakeWordListening or a timer that will call it)
NoObs == [speaks |-> 0, finalizes |-> 0, speechEnds |-> 0, errors |-> 0,
          blanks |-> 0, stale |-> 0,
          frameNo |-> 0, lastSpeechFrame |-> 0, silenceAt |-> 0,
          handed |-> <<>>, buffered |-> <<>>,
          proxy |-> [s \in Sockets |-> <<>>], backend |-> <<>>,
          surfacedAt |-> {}, latencies |-> 0, latencyFrom |-> {},
          returns |-> 0]
Count(n) == IF n < ObsCap THEN n + 1 ELSE n

\* a return to listening is asked for
NoteReturn(S) ==
    IF S.sessions > 0 THEN [S EXCEPT !.obs.returns = Count(S.obs.returns)] ELSE S

\* ws.onerror of the transcription socket calls this.onError
NoteSurfaced(S) ==
    [S EXCEPT !.obs.surfacedAt = S.obs.surfacedAt \cup {S.reconnectAttempts}]

\* an error event reaches a handler while a session is active
NoteError(S) ==
    IF S.sessions > 0 THEN [S EXCEPT !.obs.errors = Count(S.obs.errors)] ELSE S

\* synthesis audio of the job of turn t is handled
NoteChunk(S, t) ==
    IF S.sessions > 0 /\ S.turn = t THEN S
    ELSE [S EXCEPT !.obs.stale = Count(S.obs.stale)]

(***************************************************************************)
(* CaptureWorkletProcessor.  A sample is a number of units: Unit is the     *)
(* float 1.0.  The grid has points between 1/32768 and 1/32767.            *)
(***************************************************************************)
\* sample values fed to the chunker: beyond the range, inside it, zero
Unit == 65535
Levels == {-98303, -21823, 0, 45875}

\* the number stored in an Int16Array element for the float num / Unit:
\* the fraction is cut off towards zero and the integer is taken modulo 2^16
ToInt16(num) ==
    LET t == IF num >= 0 THEN num \div Unit ELSE -((-num) \div Unit)
    IN  ((t + 32768) % 65536) - 32768

\* a conversion that scales the non-negative samples by 0x7FFE
float32ToInt16Short(x) ==
    LET lo == IF x < Unit THEN x ELSE Unit
        clamped == IF lo > -Unit THEN lo ELSE -Unit
    IN  IF clamped < 0 THEN ToInt16(clamped * 32768) ELSE ToInt16(clamped * 32766)

\* float32ToInt16 for one element
float32ToInt16(x) ==
    LET lo == IF x < Unit THEN x ELSE Unit
        clamped == IF lo > -Unit THEN lo ELSE -Unit
    IN  IF clamped < 0 THEN ToInt16(clamped * 32768) ELSE ToInt16(clamped * 32767)

\* AudioPlayback.addAudioChunk: the Float32 made of the Int16 v, as the
\* divisor it is divided by
int16ToFloat32(v) == IF v < 0 THEN 32768 ELSE 32767

\* the loop body of process() that starts the next frame one sample late
ChunkSampleSkew(S, x) ==
    LET buf1 == [S.buffer EXCEPT ![S.bufferIndex] = x]
        i1 == S.bufferIndex + 1
    IN  IF i1 >= captureBufferSize
        THEN [S EXCEPT !.buffer = buf1, !.bufferIndex = 1,
                       !.capPosted = Append(S.capPosted,
                           [j \in 1..captureBufferSize |-> float32ToInt16(buf1[j - 1])])]
        ELSE [S EXCEPT !.buffer = buf1, !.bufferIndex = i1]

\* the loop body of process() of the capture worklet for the sample x
ChunkSample(S, x) ==
    LET buf1 == [S.buffer EXCEPT ![S.bufferIndex] = x]
        i1 == S.bufferIndex + 1
    IN  IF i1 >= captureBufferSize
        THEN [S EXCEPT !.buffer = buf1, !.bufferIndex = 0,
                       !.capPosted = Append(S.capPosted,
                           [j \in 1..captureBufferSize |-> float32ToInt16(buf1[j - 1])])]
        ELSE [S EXCEPT !.buffer = buf1, !.bufferIndex = i1]

\* process(inputs, outputs, parameters) of the capture worklet: block is
\* inputs[0][0]
RECURSIVE captureProcess(_, _, _)
captureProcess(S, block, i) ==
    IF i > Len(block) THEN S
    ELSE captureProcess(ChunkSample(S, block[i]), block, i + 1)

(***************************************************************************)
(* PlaybackWorkletProcessor                                                *)
(***************************************************************************)
Ring(buf, w, r, n) == [buf |-> buf, w |-> w, r |-> r, n |-> n]

\* new Float32Array(bufferSize), and audioBuffer.fill(0)
Silence == [i \in 0..(bufferSize - 1) |-> 0]

\* one iteration of the loop of addAudioData without the overflow branch
AddSampleNoClamp(b, x) ==
    Ring([b.buf EXCEPT ![b.w] = x], (b.w + 1) % bufferSize, b.r, b.n + 1)

\* one iteration of the loop of addAudioData that on overflow drops a sample
\* from the count and leaves the read index where it is
AddSampleKeepRead(b, x) ==
    LET buf1 == [b.buf EXCEPT ![b.w] = x]
        w1 == (b.w + 1) % bufferSize
        n1 == b.n + 1
    IN  IF n1 >= bufferSize
        THEN Ring(buf1, w1, b.r, bufferSize - 1)
        ELSE Ring(buf1, w1, b.r, n1)

\* one iteration of the loop of addAudioData: x is float32Data[i]
AddSample(b, x) ==
    LET buf1 == [b.buf EXCEPT ![b.w] = x]
        w1 == (b.w + 1) % bufferSize
        n1 == b.n + 1
    IN  IF n1 >= bufferSize
        THEN Ring(buf1, w1, (w1 + 1) % bufferSize, bufferSize - 1)
        ELSE Ring(buf1, w1, b.r, n1)

\* the loop of addAudioData from index i (1-based) on
RECURSIVE AddSamples(_, _, _)
AddSamples(b, data, i) ==
    IF i > Len(data) THEN b ELSE AddSamples(AddSample(b, data[i]), data, i + 1)

\* addAudioData posting 'started' whenever the threshold is met
addAudioDataAlways(S, data) ==
    LET b == AddSamples(Ring(S.audioBuffer, S.writeIndex, S.readIndex,
                             S.samplesAvailable), data, 1)
        start == b.n >= jitterBufferSize
    IN  [S EXCEPT !.audioBuffer = b.buf,
                  !.writeIndex = b.w, !.readIndex = b.r, !.samplesAvailable = b.n,
                  !.isPlaying = (S.isPlaying \/ start),
                  !.pbEvents = IF start THEN Append(S.pbEvents, "started")
                               ELSE S.pbEvents]

\* addAudioData(audioData): data is the sequence of samples of the chunk
addAudioData(S, data) ==
    LET b == AddSamples(Ring(S.audioBuffer, S.writeIndex, S.readIndex,
                             S.samplesAvailable), data, 1)
        start == ~S.isPlaying /\ b.n >= jitterBufferSize
    IN  [S EXCEPT !.audioBuffer = b.buf,
                  !.writeIndex = b.w, !.readIndex = b.r, !.samplesAvailable = b.n,
                  !.isPlaying = (S.isPlaying \/ start),
                  !.pbEvents = IF start THEN Append(S.pbEvents, "started")
                               ELSE S.pbEvents]

\* reset() that leaves the buffer primed
resetKeepPlaying(S) ==
    [S EXCEPT !.writeIndex = 0, !.readIndex = 0, !.samplesAvailable = 0,
              !.audioBuffer = Silence]

\* reset()
reset(S) ==
    [S EXCEPT !.writeIndex = 0, !.readIndex = 0, !.samplesAvailable = 0,
              !.isPlaying = FALSE, !.audioBuffer = Silence]

\* an output block as the platform hands it to process(): zero-filled
ZeroBlock == [i \in 1..BlockSize |-> 0]

\* a read loop that steps the read index backwards
RECURSIVE ReadLoopBackward(_, _, _)
ReadLoopBackward(b, out, i) ==
    IF i >= BlockSize THEN [b |-> b, out |-> out, ended |-> FALSE]
    ELSE IF b.n > 0
         THEN ReadLoopBackward(
                  Ring(b.buf, b.w, (b.r + bufferSize - 1) % bufferSize, b.n - 1),
                  [out EXCEPT ![i + 1] = b.buf[b.r]], i + 1)
         ELSE [b |-> b, out |-> [out EXCEPT ![i + 1] = 0], ended |-> TRUE]

\* the read loop of process(): i is the loop index (0-based) and out the
\* output block; the result carries whether the else branch (underrun) was
\* taken
RECURSIVE ReadLoop(_, _, _)
ReadLoop(b, out, i) ==
    IF i >= BlockSize THEN [b |-> b, out |-> out, ended |-> FALSE]
    ELSE IF b.n > 0
         THEN ReadLoop(Ring(b.buf, b.w, (b.r + 1) % bufferSize, b.n - 1),
                       [out EXCEPT ![i + 1] = b.buf[b.r]], i + 1)
         ELSE [b |-> b, out |-> [out EXCEPT ![i + 1] = 0], ended |-> TRUE]

\* process() draining the buffer whether primed or not
processUnprimed(S) ==
    IF S.samplesAvailable = 0
    THEN [S EXCEPT !.channelData = ZeroBlock]
    ELSE LET res == ReadLoop(Ring(S.audioBuffer, S.writeIndex, S.readIndex,
                                  S.samplesAvailable), ZeroBlock, 0)
         IN  [S EXCEPT !.writeIndex = res.b.w, !.readIndex = res.b.r,
                       !.samplesAvailable = res.b.n,
                       !.channelData = res.out,
                       !.isPlaying = ~res.ended,
                       !.pbEvents = IF res.ended THEN Append(S.pbEvents, "ended")
                                    ELSE S.pbEvents]

\* process(inputs, outputs, parameters) for one render quantum
process(S) ==
    IF ~S.isPlaying \/ S.samplesAvailable = 0
    THEN [S EXCEPT !.channelData = ZeroBlock]
    ELSE LET res == ReadLoop(Ring(S.audioBuffer, S.writeIndex, S.readIndex,
                                  S.samplesAvailable), ZeroBlock, 0)
         IN  [S EXCEPT !.writeIndex = res.b.w, !.readIndex = res.b.r,
                       !.samplesAvailable = res.b.n,
                       !.channelData = res.out,
                       !.isPlaying = ~res.ended,
                       !.pbEvents = IF res.ended THEN Append(S.pbEvents, "ended")
                                    ELSE S.pbEvents]

(***************************************************************************)
(* AudioPlayback (main thread)                                             *)
(***************************************************************************)
\* AudioPlayback.reset(): the reset message reaches the worklet in order
pbReset(S) ==
    LET S1 == IF S.pbNode THEN reset(S) ELSE S
    IN  [S1 EXCEPT !.pbIsPlaying = FALSE]

\* AudioPlayback.cleanup()
pbCleanup(S) == [pbReset(S) EXCEPT !.pbNode = FALSE]

\* the value of every sample of synthesized audio: the orchestrator does not
\* look at sample values
Tone == 1

\* AudioPlayback.addAudioChunk(audioData): throws without a worklet node; the
\* throw is caught by TTSService.handleMessage
addAudioChunk(S, k) ==
    IF S.pbNode THEN addAudioData(S, [i \in 1..k |-> Tone]) ELSE S

(***************************************************************************)
(* WakeWordDetector                                                        *)
(***************************************************************************)
\* WakeWordDetector.start(onDetectedCallback)
wwStart(S) == IF ~S.wwIsInitialized THEN S ELSE [S EXCEPT !.wwIsListening = TRUE]

\* stop() that leaves the detector listening
wwStopKeepListening(S) == S

\* WakeWordDetector.stop()
wwStop(S) == IF ~S.wwIsInitialized THEN S ELSE [S EXCEPT !.wwIsListening = FALSE]

\* handleWakeWordDetected that starts no cooldown window
detectedNoCooldown(S) ==
    IF ~S.wwIsListening
    THEN [S EXCEPT !.wakeLog.unheard = Count(S.wakeLog.unheard)]
    ELSE IF S.now < S.cooldownUntil
         THEN [S EXCEPT !.wakeLog.ignored = Count(S.wakeLog.ignored)]
         ELSE [S EXCEPT !.cooldownUntil = S.now,
                        !.wakeLog.calls = Append(S.wakeLog.calls, S.now)]

\* WakeWordDetector.handleWakeWordDetected(), the callback being one that
\* leaves the detector alone: onWakeWordDetected is set while isListening
detected(S) ==
    IF ~S.wwIsListening
    THEN [S EXCEPT !.wakeLog.unheard = Count(S.wakeLog.unheard)]
    ELSE IF S.now < S.cooldownUntil
         THEN [S EXCEPT !.wakeLog.ignored = Count(S.wakeLog.ignored)]
         ELSE [S EXCEPT !.cooldownUntil = S.now + cooldownMs,
                        !.wakeLog.calls = Append(S.wakeLog.calls, S.now)]

\* WakeWordDetector.cleanup()
wwCleanup(S) == [wwStop(S) EXCEPT !.wwIsInitialized = FALSE]

(***************************************************************************)
(* STTService and, behind each socket, handleSTTConnection of the proxy    *)
(***************************************************************************)
\* a socket not created yet, and a socket whose close event has been handled
FreeSock == [st |-> "free", waiter |-> 0, pAudio |-> FALSE, pBusy |-> FALSE]
ClosedSock == [FreeSock EXCEPT !.st = "closed"]

FreeSockets(S) == {s \in Sockets : S.sock[s].st = "free"}

\* the proxy's message handler, cases 'audio' and 'transcribe'
proxyStt(S, s, type) ==
    LET c == S.sock[s]
    IN  IF type = "audio"
        THEN [S EXCEPT !.sock[s].pAudio = TRUE,
                       !.obs.proxy[s] = S.obs.proxy[s] \o S.obs.buffered]
        ELSE IF ~c.pBusy /\ c.pAudio
             THEN [S EXCEPT !.sock[s].pBusy = TRUE, !.sock[s].pAudio = FALSE,
                            !.obs.backend = S.obs.backend \o S.obs.proxy[s],
                            !.obs.proxy[s] = <<>>]
             ELSE S

\* STTService.send(message)
sttSend(S, type) ==
    IF S.sttWs = 0 \/ S.sock[S.sttWs].st # "open"
    THEN S
    ELSE LET S1 == IF type = "transcribe"
                   THEN [S EXCEPT !.obs.finalizes = Count(S.obs.finalizes)]
                   ELSE S
         IN  proxyStt(S1, S.sttWs, type)

\* STTService.flushAudioBuffer()
flushAudioBuffer(S) ==
    IF S.audioChunkBuffer = 0
    THEN S
    ELSE [sttSend(S, "audio") EXCEPT !.audioChunkBuffer = 0,
                                     !.obs.buffered = <<>>]

\* a frame is a number f; frames that are not told apart carry f = 0
Noted(log, f) == IF f > 0 THEN Append(log, f) ELSE log

\* STTService.sendAudio(audioData): f is the frame
sendAudio(S, f) ==
    LET S0 == [S EXCEPT !.obs.handed = Noted(S.obs.handed, f)]
    IN  IF ~S.sttIsConnected \/ S.sttWs = 0
        THEN S0
        ELSE LET S1 == [S0 EXCEPT !.audioChunkBuffer = S.audioChunkBuffer + 1,
                                  !.obs.buffered = Noted(S.obs.buffered, f)]
             IN  IF S1.audioChunkBuffer >= chunkBufferSize
                 THEN flushAudioBuffer(S1)
                 ELSE S1

\* commitAudio that requests the transcript without flushing first
commitAudioNoFlush(S) ==
    IF ~S.sttIsConnected \/ S.sttWs = 0
    THEN S
    ELSE sttSend(S, "transcribe")

\* STTService.commitAudio()
commitAudio(S) ==
    IF ~S.sttIsConnected \/ S.sttWs = 0
    THEN S
    ELSE sttSend(flushAudioBuffer(S), "transcribe")

\* STTService.stopTranscription()
stopTranscription(S) ==
    [commitAudio(S) EXCEPT !.audioChunkBuffer = 0, !.obs.buffered = <<>>]

\* STTService.startTranscription(onPartial, onFinal, onError)
startTranscription(S) ==
    [S EXCEPT !.sttCallbacks = TRUE, !.audioChunkBuffer = 0, !.obs.buffered = <<>>]

\* ws.close(): a socket closed before it is open fails with an error event
closeSock(c) ==
    [c EXCEPT !.st = IF c.st = "open" THEN "closing"
                     ELSE IF c.st = "connecting" THEN "failing"
                     ELSE c.st]

\* STTService.disconnect()
sttDisconnect(S) ==
    LET S1 == IF S.sttWs # 0
              THEN [S EXCEPT !.sock[S.sttWs] = closeSock(S.sock[S.sttWs]), !.sttWs = 0]
              ELSE S
    IN  [S1 EXCEPT !.sttIsConnected = FALSE, !.audioChunkBuffer = 0,
                   !.obs.buffered = <<>>]

\* STTService.connect(): a new socket; w is the turn whose
\* handleWakeWordDetected awaits the returned promise (0: nobody continues)
sttConnect(S, w) ==
    LET s == CHOOSE x \in FreeSockets(S) : \A y \in FreeSockets(S) : x <= y
    IN  [S EXCEPT !.sock[s] = [FreeSock EXCEPT !.st = "connecting", !.waiter = w],
                  !.sttWs = s]

\* STTService.handleDisconnect(), up to its timer
handleDisconnect(S) ==
    IF S.reconnectAttempts < maxReconnectAttempts
    THEN [S EXCEPT !.reconnectAttempts = S.reconnectAttempts + 1,
                   !.reconnTimers = S.reconnTimers + 1]
    ELSE S

(***************************************************************************)
(* handleSTTConnection of the proxy, message by message.  Audio messages   *)
(* are numbered in arrival order.  Besides audioBuffer and isTranscribing  *)
(* the record notes the audio messages and transcribe requests received,   *)
(* the backend requests made, those in flight and the replies sent.        *)
(***************************************************************************)
NoConn == [audioBuffer |-> <<>>, isTranscribing |-> FALSE,
           received |-> 0, asked |-> 0, requests |-> <<>>,
           inFlight |-> 0, replies |-> 0]

\* the message handler with a 'transcribe' case that keeps the buffer
sttMessageKeepBuffer(c, type) ==
    IF type = "audio"
    THEN [c EXCEPT !.received = c.received + 1,
                   !.audioBuffer = Append(c.audioBuffer, c.received + 1)]
    ELSE LET c1 == [c EXCEPT !.asked = c.asked + 1]
         IN  IF ~c.isTranscribing /\ Len(c.audioBuffer) > 0
             THEN [c1 EXCEPT !.isTranscribing = TRUE,
                             !.requests = Append(c.requests, c.audioBuffer),
                             !.inFlight = c.inFlight + 1]
             ELSE c1

\* clientWs.on('message'), cases 'audio' and 'transcribe'
sttMessage(c, type) ==
    IF type = "audio"
    THEN [c EXCEPT !.received = c.received + 1,
                   !.audioBuffer = Append(c.audioBuffer, c.received + 1)]
    ELSE LET c1 == [c EXCEPT !.asked = c.asked + 1]
         IN  IF ~c.isTranscribing /\ Len(c.audioBuffer) > 0
             THEN [c1 EXCEPT !.isTranscribing = TRUE,
                             !.requests = Append(c.requests, c.audioBuffer),
                             !.audioBuffer = <<>>,
                             !.inFlight = c.inFlight + 1]
             ELSE c1

\* transcribeWithGroq settles: then or catch sends one message, finally
\* clears isTranscribing
transcribeSettled(c) ==
    [c EXCEPT !.replies = c.replies + 1, !.inFlight = c.inFlight - 1,
              !.isTranscribing = FALSE]

(***************************************************************************)
(* TTSService and handleTTSConnection of the proxy                         *)
(***************************************************************************)
\* a synthesis job: 0 none, -1 an error message is due, k > 0: k - 1 audio
\* messages and then 'done' are due
NoJobs == [t \in 0..MaxTurns |-> 0]

\* TTSService.speak(text); job is what the proxy will answer
speak(S, job) ==
    LET S1 == [S EXCEPT !.obs.speaks = Count(S.obs.speaks)]
    IN  IF ~S.ttsIsConnected \/ S.ttsWs = "null"
        THEN S1
        ELSE IF S.ttsWs # "open"
             THEN S1
             ELSE [S1 EXCEPT !.ttsJob[S.turn] = job]

\* TTSService.disconnect()
ttsDisconnect(S) ==
    [S EXCEPT !.ttsWs = "null", !.ttsIsConnected = FALSE, !.ttsJob = NoJobs]

(***************************************************************************)
(* KnowledgeBase.  A text is a sequence of characters.  Questions are      *)
(* written with the letters a and B, the blank and the question mark, so   *)
(* that each step of normalize() has something to do; knowledge_base.json  *)
(* is not part of the sources and is given three entries here.             *)
(***************************************************************************)
RawChars == {"a", "B", " ", "?"}

\* the names every object literal inherits from Object.prototype that a
\* normalized text can be equal to
ObjectPrototype ==
    {<<"c", "o", "n", "s", "t", "r", "u", "c", "t", "o", "r">>,
     <<"_", "_", "p", "r", "o", "t", "o", "_", "_">>}

\* the questions put to the knowledge base
Texts ==
    UNION {[1..n -> RawChars] : n \in 0..MaxText}
    \cup ObjectPrototype
    \cup {<<"a", " ">> \o p : p \in ObjectPrototype}

\* the content of knowledge_base.json, in the order of the file
KbData ==
    << [key |-> <<"a", " ", "a", "a", "a", "?">>, answer |-> "one"],
       [key |-> <<"B", "B", "B", " ", "B">>, answer |-> ""],
       [key |-> <<"B", "B", "B">>, answer |-> "three"] >>

\* String.prototype.toLowerCase
toLowerCase(text) == [i \in 1..Len(text) |-> IF text[i] = "B" THEN "b" ELSE text[i]]

\* String.prototype.trim
trim(text) ==
    LET blank(i) == text[i] = " "
        first == IF \E i \in 1..Len(text) : ~blank(i)
                 THEN CHOOSE i \in 1..Len(text) :
                          ~blank(i) /\ \A j \in 1..(i - 1) : blank(j)
                 ELSE Len(text) + 1
        last == IF \E i \in 1..Len(text) : ~blank(i)
                THEN CHOOSE i \in 1..Len(text) :
                         ~blank(i) /\ \A j \in (i + 1)..Len(text) : blank(j)
                ELSE Len(text)
    IN  SubSeq(text, first, last)

\* replace(/[.,!?;:'"]/g, '')
removePunctuation(text) ==
    SelectSeq(text, LAMBDA c : c \notin {".", ",", "!", "?", ";", ":", "'", "\""})

\* replace(/\s+/g, ' ')
RECURSIVE collapseWhitespace(_)
collapseWhitespace(text) ==
    IF Len(text) < 2 THEN text
    ELSE IF text[1] = " " /\ text[2] = " "
         THEN collapseWhitespace(Tail(text))
         ELSE <<Head(text)>> \o collapseWhitespace(Tail(text))

\* KnowledgeBase.normalize(text)
normalize(text) == collapseWhitespace(removePunctuation(trim(toLowerCase(text))))

\* String.prototype.split(' ')
RECURSIVE split(_, _)
split(text, word) ==
    IF text = <<>> THEN <<word>>
    ELSE IF Head(text) = " " THEN <<word>> \o split(Tail(text), <<>>)
    ELSE split(Tail(text), Append(word, Head(text)))

\* the words of a text that are longer than two characters
significantWords(text) == SelectSeq(split(text, <<>>), LAMBDA w : Len(w) > 2)

\* String.prototype.includes
includes(text, part) ==
    \E i \in 0..(Len(text) - Len(part)) : SubSeq(text, i + 1, i + Len(part)) = part

\* obj[name] is truthy: an own property (all values stored are) or an
\* inherited one
Truthy(own, name) == name \in own \/ name \in ObjectPrototype

\* the entries of an object as a sequence of [key, value] in insertion
\* order: the index of a key, 0 if it is not an own property
IndexOf(entries, key) ==
    IF \E i \in 1..Len(entries) : entries[i].key = key
    THEN CHOOSE i \in 1..Len(entries) : entries[i].key = key
    ELSE 0

OwnKeys(entries) == {entries[i].key : i \in 1..Len(entries)}

\* obj[key] = value
Put(entries, key, value) ==
    IF IndexOf(entries, key) = 0
    THEN Append(entries, [key |-> key, value |-> value])
    ELSE [entries EXCEPT ![IndexOf(entries, key)].value = value]

\* KnowledgeBase.load(): the inner loop over the words of one key
RECURSIVE indexWords(_, _, _)
indexWords(kw, words, normalizedKey) ==
    IF words = <<>> THEN kw
    ELSE LET word == Head(words)
             i == IndexOf(kw, word)
             kw1 == IF i = 0
                    THEN Append(kw, [key |-> word, value |-> <<normalizedKey>>])
                    ELSE [kw EXCEPT ![i].value = Append(kw[i].value, normalizedKey)]
         IN  indexWords(kw1, Tail(words), normalizedKey)

\* KnowledgeBase.load(): the loop over the entries of the file
RECURSIVE load(_, _)
load(S, data) ==
    IF data = <<>> THEN [S EXCEPT !.kbIsLoaded = TRUE]
    ELSE LET normalizedKey == normalize(Head(data).key)
         IN  load([S EXCEPT
                     !.normalizedData = Put(S.normalizedData, normalizedKey,
                                            Head(data).answer),
                     !.keywords = indexWords(S.keywords,
                                             significantWords(normalizedKey),
                                             normalizedKey)],
                  Tail(data))

\* calculateLevenshtein: the row of the matrix that follows the row prev, for
\* the character c of str1; column j of a row is its element j + 1, and row
\* holds the columns filled so far
RECURSIVE NextRow(_, _, _, _)
NextRow(prev, c, str2, row) ==
    LET j == Len(row)
        del == prev[j + 1] + 1
        ins == row[j] + 1
        sub == prev[j] + (IF c = str2[j] THEN 0 ELSE 1)
        m == IF del < ins THEN del ELSE ins
    IN  IF j > Len(str2) THEN row
        ELSE IF j = 0 THEN NextRow(prev, c, str2, <<prev[1] + 1>>)
        ELSE NextRow(prev, c, str2, Append(row, IF m < sub THEN m ELSE sub))

\* calculateLevenshtein: the last row of the matrix
RECURSIVE LastRow(_, _, _, _)
LastRow(prev, str1, str2, i) ==
    IF i > Len(str1) THEN prev
    ELSE LastRow(NextRow(prev, str1[i], str2, <<>>), str1, str2, i + 1)

\* KnowledgeBase.calculateLevenshtein(str1, str2): 1 - distance / maxLen as
\* the fraction num / den; 0 / 0 is NaN
calculateLevenshtein(str1, str2) ==
    LET distance == LastRow([j \in 1..(Len(str2) + 1) |-> j - 1],
                            str1, str2, 1)[Len(str2) + 1]
        maxLen == IF Len(str1) > Len(str2) THEN Len(str1) ELSE Len(str2)
    IN  [num |-> maxLen - distance, den |-> maxLen]

\* a > b, a >= b for scores; every comparison with NaN is false
Greater(a, b) == a.den # 0 /\ b.den # 0 /\ a.num * b.den > b.num * a.den
AtLeast(a, b) == a.den # 0 /\ b.den # 0 /\ a.num * b.den >= b.num * a.den

\* what find returns: a stored answer, or null / undefined
Answer(text) == [found |-> TRUE, text |-> text]
Null == [found |-> FALSE, text |-> ""]

\* the candidates of the keyword strategy: a Set, in insertion order
RECURSIVE addAll(_, _)
addAll(candidates, keys) ==
    IF keys = <<>> THEN candidates
    ELSE addAll(IF \E i \in 1..Len(candidates) : candidates[i] = Head(keys)
                THEN candidates ELSE Append(candidates, Head(keys)),
                Tail(keys))

\* the loop over queryWords: [threw, candidates]
RECURSIVE collect(_, _, _)
collect(kw, queryWords, candidates) ==
    IF queryWords = <<>> THEN [threw |-> FALSE, candidates |-> candidates]
    ELSE LET word == Head(queryWords)
         IN  IF ~Truthy(OwnKeys(kw), word)
             THEN collect(kw, Tail(queryWords), candidates)
             ELSE IF word \notin OwnKeys(kw)
                  \* the inherited value has no forEach
                  THEN [threw |-> TRUE, candidates |-> candidates]
                  ELSE collect(kw, Tail(queryWords),
                               addAll(candidates, kw[IndexOf(kw, word)].value))

\* the loops that keep the best match: keys are looked at in order, best is
\* [score, answer]; floor is the least score a match must have (0: none)
RECURSIVE bestOf(_, _, _, _, _)
bestOf(entries, normalized, keys, floor, best) ==
    IF keys = <<>> THEN best
    ELSE LET score == calculateLevenshtein(normalized, Head(keys))
             value == entries[IndexOf(entries, Head(keys))].value
         IN  bestOf(entries, normalized, Tail(keys), floor,
                    IF Greater(score, best.score) /\ AtLeast(score, floor)
                    THEN [score |-> score, answer |-> Answer(value)]
                    ELSE best)

\* the first entry that contains the text or is contained in it: 0 if none
containsMatch(entries, normalized) ==
    LET hit(i) == includes(normalized, entries[i].key)
                  \/ includes(entries[i].key, normalized)
    IN  IF \E i \in 1..Len(entries) : hit(i)
        THEN CHOOSE i \in 1..Len(entries) : hit(i) /\ \A j \in 1..(i - 1) : ~hit(j)
        ELSE 0

\* what find does: which strategy it logs, what it returns, whether it throws
Found(log, answer) == [threw |-> FALSE, log |-> log, answer |-> answer]

\* find that tries containment before the exact match
findContainsFirst(S, question) ==
    LET normalized == normalize(question)
        entries == S.normalizedData
        c == containsMatch(entries, normalized)
    IN  IF c # 0 THEN Found("contains", Answer(entries[c].value))
        ELSE Found("none", Null)

\* KnowledgeBase.find(question)
find(S, question) ==
    LET normalized == normalize(question)
        entries == S.normalizedData
        keys == [i \in 1..Len(entries) |-> entries[i].key]
        c == containsMatch(entries, normalized)
        cand == collect(S.keywords, significantWords(normalized), <<>>)
        none == [score |-> [num |-> 0, den |-> 1], answer |-> Null]
        byKeyword == bestOf(entries, normalized, cand.candidates,
                            [num |-> 0, den |-> 1], none)
        fuzzy == bestOf(entries, normalized, keys, [num |-> 1, den |-> 2], none)
    IN  IF ~S.kbIsLoaded THEN Found("not loaded", Null)
        ELSE IF Truthy(OwnKeys(entries), normalized)
        THEN Found("exact",
                   IF normalized \in OwnKeys(entries)
                   THEN Answer(entries[IndexOf(entries, normalized)].value)
                   ELSE Null)
        ELSE IF c # 0 THEN Found("contains", Answer(entries[c].value))
        ELSE IF cand.threw THEN [Found("TypeError", Null) EXCEPT !.threw = TRUE]
        ELSE IF cand.candidates # <<>> /\ Greater(byKeyword.score, [num |-> 2, den |-> 5])
        THEN Found("keyword", byKeyword.answer)
        ELSE IF fuzzy.answer.found /\ fuzzy.answer.text # ""
        THEN Found("fuzzy", fuzzy.answer)
        ELSE Found("none", Null)

\* KnowledgeBase.getDefaultResponse()
getDefaultResponse == "I'm sorry, I don't have information about that."

\* KnowledgeBase.getAnswer(question): answer || this.getDefaultResponse(),
\* where answer is what find returned; "" if find threw
getAnswer(answer) ==
    IF answer.threw THEN ""
    ELSE IF answer.answer.found /\ answer.answer.text # "" THEN answer.answer.text
    ELSE getDefaultResponse

\* no question has been asked
NotAsked == [asked |-> FALSE, question |-> <<>>, found |-> Found("none", Null),
             answer |-> ""]

\* a question is put to getAnswer
ask(S, question) ==
    LET answer == find(S, question)
    IN  [S EXCEPT !.asked = [asked |-> TRUE, question |-> question,
                             found |-> answer, answer |-> getAnswer(answer)]]

(***************************************************************************)
(* handleTTSConnection and synthesizeWithGoogleOptimized of the proxy, on  *)
(* a connection that stays open.  The message handler is async: a speak    *)
(* request received while another is streaming runs beside it.             *)
(***************************************************************************)
\* a request not received yet
NoRequest == [pc |-> "none", len |-> 0, sent |-> 0]

\* clientWs.send of a message of request r (0: of no request)
wireSend(S, r, type, i) ==
    [S EXCEPT !.ttsWire = Append(S.ttsWire, [req |-> r, type |-> type, i |-> i])]

\* a loop that announces the end before its last chunk
synthLoopEarlyDone(S, r) ==
    LET q == S.ttsReq[r]
    IN  IF q.sent + 1 < q.len
        THEN wireSend([S EXCEPT !.ttsReq[r].sent = q.sent + 1], r, "audio", q.sent + 1)
        ELSE IF q.sent < q.len
             THEN wireSend(wireSend([S EXCEPT !.ttsReq[r].sent = q.sent + 1],
                                    r, "done", 0), r, "audio", q.sent + 1)
             ELSE [S EXCEPT !.ttsReq[r].pc = "finished"]

\* the for loop of synthesizeWithGoogleOptimized from its test to the next
\* await; when the loop ends the function returns and 'done' is sent
synthLoop(S, r) ==
    LET q == S.ttsReq[r]
    IN  IF q.sent < q.len
        THEN wireSend([S EXCEPT !.ttsReq[r].sent = q.sent + 1], r, "audio", q.sent + 1)
        ELSE wireSend([S EXCEPT !.ttsReq[r].pc = "finished"], r, "done", 0)

(***************************************************************************)
(* VoiceAssistant                                                          *)
(***************************************************************************)
\* UIController.resetLatency()
NoLatency == [shown |-> FALSE, ms |-> 0, cls |-> "", level |-> "none"]

\* UIController.updateLatency(latencyMs): the class added to the element
latencyClass(latencyMs) ==
    IF latencyMs > criticalMs THEN "very-slow"
    ELSE IF latencyMs > warningMs THEN "slow"
    ELSE ""

\* a classification whose warning band stops short of the critical threshold
latencyLevelShort(latency) ==
    IF latency <= targetMs THEN "excellent"
    ELSE IF latency <= warningMs THEN "good"
    ELSE IF latency < criticalMs THEN "high"
    ELSE "critical"

\* VoiceAssistant.handleSpeechStarted(): the if-chain over the latency
latencyLevel(latency) ==
    IF latency <= targetMs THEN "excellent"
    ELSE IF latency <= warningMs THEN "good"
    ELSE IF latency <= criticalMs THEN "high"
    ELSE "critical"

\* VoiceAssistant.handleSpeechStarted(): what it does with a latency
reportLatency(S, latency) ==
    [S EXCEPT !.latencyUi = [shown |-> TRUE, ms |-> latency,
                             cls |-> latencyClass(latency),
                             level |-> latencyLevel(latency)]]

\* VoiceAssistant.startWakeWordListening()
startWakeWordListening(S) ==
    LET S1 == [S EXCEPT !.uiStatus = "listening", !.latencyUi = NoLatency,
                        !.hasSpeech = FALSE, !.consecutiveSilenceFrames = 0,
                        !.silenceTriggered = FALSE, !.audioStreamingStopped = FALSE,
                        !.speechEndTime = 0, !.responseStartTime = 0]
        S2 == wwStart(S1)
    IN  \* audioCapture.start throws when capture is not initialized
        IF S2.capReady
        THEN [S2 EXCEPT !.isCapturing = TRUE, !.isWaitingForWakeWord = TRUE]
        ELSE S2

\* VoiceAssistant.returnToWakeWordListening()
returnToWakeWordListening(S) ==
    LET S1 == [S EXCEPT !.isProcessing = FALSE,
                        !.speechEndTime = 0, !.responseStartTime = 0,
                        !.hasSpeech = FALSE, !.consecutiveSilenceFrames = 0,
                        !.silenceTriggered = FALSE, !.audioStreamingStopped = FALSE,
                        !.sessions = 0]
        S2 == pbReset(sttDisconnect(S1))
    IN  IF S2.isRunning THEN startWakeWordListening(S2) ELSE S2

\* VoiceAssistant.handleError(error)
handleError(S) ==
    IF S.isRunning THEN NoteReturn([S EXCEPT !.errTimers = S.errTimers + 1]) ELSE S

\* VoiceAssistant.stopSpeechDetection()
stopSpeechDetection(S) ==
    IF S.isProcessing /\ S.sttIsConnected THEN stopTranscription(S) ELSE S

\* VoiceAssistant.handleWakeWordDetected(), up to the await of connect()
handleWakeWordDetected(S) ==
    LET S1 == [S EXCEPT !.isWaitingForWakeWord = FALSE, !.isProcessing = TRUE,
                        !.uiStatus = "processing",
                        !.hasSpeech = FALSE, !.consecutiveSilenceFrames = 0,
                        !.silenceTriggered = FALSE, !.audioStreamingStopped = FALSE,
                        !.speechEndTime = 0, !.responseStartTime = 0,
                        !.turn = S.turn + 1, !.sessions = S.sessions + 1,
                        !.obs = NoObs]
    IN  sttConnect(wwStop(S1), S1.turn)

\* VoiceAssistant.handleWakeWordDetected(), after connect() has resolved:
\* t is the turn of this invocation
wakeConnected(S, t) ==
    [startTranscription(S) EXCEPT !.maxTimers = S.maxTimers \cup {t}]

\* the callback of setTimeout(..., 2000) in handleWakeWordDetected
maxDurationTimeout(S) ==
    IF S.isProcessing /\ S.sttIsConnected /\ ~S.silenceTriggered
    THEN stopSpeechDetection(
             [S EXCEPT !.audioStreamingStopped = TRUE, !.speechEndTime = S.turn,
                       !.obs.speechEnds = Count(S.obs.speechEnds)])
    ELSE S

\* the capture callback installed by startWakeWordListening: speech is
\* calculateRMS(audioData) > silenceThreshold and f is the frame
captureCallback(S, speech, f) ==
    IF S.isProcessing /\ S.sttIsConnected /\ ~S.audioStreamingStopped
    THEN LET S1 == sendAudio(S, f)
         IN  IF speech
             THEN [S1 EXCEPT !.hasSpeech = TRUE, !.consecutiveSilenceFrames = 0]
             ELSE IF S1.hasSpeech /\ ~S1.silenceTriggered
                  THEN LET S2 == [S1 EXCEPT !.consecutiveSilenceFrames =
                                                S1.consecutiveSilenceFrames + 1]
                       IN  IF S2.consecutiveSilenceFrames >= requiredSilenceFrames
                           THEN stopSpeechDetection(
                                    [S2 EXCEPT !.silenceTriggered = TRUE,
                                               !.audioStreamingStopped = TRUE,
                                               !.speechEndTime = S2.turn,
                                               !.obs.speechEnds = Count(S2.obs.speechEnds)])
                           ELSE S2
                  ELSE S1
    ELSE S

RECURSIVE CaptureFrames(_, _, _)
CaptureFrames(S, speech, n) ==
    IF n = 0 THEN S ELSE CaptureFrames(captureCallback(S, speech, 0), speech, n - 1)

\* VoiceAssistant.speakResponse(text)
speakResponse(S, job) == speak([S EXCEPT !.responseStartTime = 0], job)

\* handleFinalTranscript without its early return for a blank transcript
handleFinalTranscriptNoReturn(S, blank, job) ==
    speakResponse(sttDisconnect(stopTranscription(S)), job)

\* VoiceAssistant.handleFinalTranscript(text): blank is !text || !text.trim()
handleFinalTranscript(S, blank, job) ==
    IF blank
    THEN returnToWakeWordListening(
             NoteReturn([S EXCEPT !.obs.blanks = Count(S.obs.blanks)]))
    ELSE speakResponse(sttDisconnect(stopTranscription(S)), job)

\* VoiceAssistant.handleTTSAudioChunk(audioData)
handleTTSAudioChunk(S, k) == addAudioChunk(S, k)

\* VoiceAssistant.handleSpeechStarted()
handleSpeechStarted(S) ==
    LET S1 == [S EXCEPT !.uiStatus = "speaking", !.responseStartTime = S.turn]
    IN  IF S1.speechEndTime # 0
        THEN [S1 EXCEPT !.obs.latencies = Count(S.obs.latencies),
                        !.obs.latencyFrom = S.obs.latencyFrom \cup {S.speechEndTime}]
        ELSE S1

\* VoiceAssistant.handleSpeechEnded(), up to its timer
handleSpeechEnded(S) == NoteReturn([S EXCEPT !.endTimers = S.endTimers + 1])

\* the callback of setTimeout(..., 500) in handleSpeechEnded
cooldownTimeout(S) == IF S.isRunning THEN returnToWakeWordListening(S) ELSE S

\* VoiceAssistant.cleanup()
cleanup(S) ==
    LET S1 == [S EXCEPT !.isRunning = FALSE, !.isWaitingForWakeWord = FALSE,
                        !.isProcessing = FALSE, !.sessions = 0]
        S2 == wwCleanup(S1)
        S3 == [S2 EXCEPT !.isCapturing = FALSE, !.capReady = FALSE, !.capCtx = FALSE]
    IN  ttsDisconnect(sttDisconnect(pbCleanup(S3)))

\* a catch block of start() that shows the error and releases nothing
startCatchNoCleanup(S) == [S EXCEPT !.startError = S.startPc]

\* VoiceAssistant.start(): the catch block
startCatch(S) == cleanup([S EXCEPT !.startError = S.startPc])

\* VoiceAssistant.stop()
stop(S) == [cleanup(S) EXCEPT !.controls = FALSE, !.uiStatus = "idle"]

(***************************************************************************)
(* The assistant: initial state and one action per event of the event loop *)
(***************************************************************************)
Init ==
    /\ audioBuffer = Silence /\ channelData = ZeroBlock
    /\ buffer = [i \in 0..(captureBufferSize - 1) |-> 0] /\ bufferIndex = 0
    /\ capPosted = <<>> /\ capInput = <<>>
    /\ writeIndex = 0 /\ readIndex = 0 /\ samplesAvailable = 0 /\ isPlaying = FALSE
    /\ pbEvents = <<>>
    /\ pbNode = FALSE /\ pbIsPlaying = FALSE
    /\ capCtx = FALSE /\ capReady = FALSE /\ isCapturing = FALSE
    /\ wwIsListening = FALSE /\ wwIsInitialized = FALSE
    /\ cooldownUntil = 0 /\ now = 0 /\ wakeLog = [calls |-> <<>>, ignored |-> 0, unheard |-> 0,
                                                     stopped |-> TRUE]
    /\ isRunning = FALSE /\ isWaitingForWakeWord = FALSE /\ isProcessing = FALSE
    /\ hasSpeech = FALSE /\ silenceTriggered = FALSE /\ audioStreamingStopped = FALSE
    /\ consecutiveSilenceFrames = 0
    /\ speechEndTime = 0 /\ responseStartTime = 0
    /\ uiStatus = "idle" /\ controls = FALSE /\ startPc = "idle"
    /\ sttWs = 0 /\ sttIsConnected = FALSE /\ reconnectAttempts = 0
    /\ sttCallbacks = FALSE /\ audioChunkBuffer = 0
    /\ sock = [s \in Sockets |-> FreeSock]
    /\ ttsWs = "null" /\ ttsIsConnected = FALSE /\ ttsCallbacks = FALSE
    /\ ttsJob = NoJobs
    /\ maxTimers = {} /\ errTimers = 0 /\ endTimers = 0 /\ reconnTimers = 0
    /\ lastWrite = 0 /\ turn = 0 /\ sessions = 0 /\ failures = 0 /\ starts = 0
    /\ obs = NoObs
    /\ conn = NoConn
    /\ pcm = [done |-> FALSE, x |-> 0, int16 |-> 0, num |-> 0, den |-> 1]
    /\ startError = "none"
    /\ kbIsLoaded = FALSE /\ normalizedData = <<>> /\ keywords = <<>> /\ asked = NotAsked
    /\ latencyUi = NoLatency
    /\ ttsReq = [r \in Requests |-> NoRequest] /\ ttsWire = <<>>
    /\ ringLog = [written |-> 0, played |-> <<>>, lossy |-> FALSE,
                  drained |-> FALSE, ended |-> 0]

Fail(S) == [S EXCEPT !.failures = S.failures + 1]
MayFail == failures < MaxFailures

\* click on the start button: start() up to its first await, which is in
\* AudioCapture.initialize() after the audio context has been created
Start ==
    /\ ~controls
    /\ startPc = "idle"
    /\ starts < MaxStarts
    /\ Commit([World EXCEPT !.controls = TRUE, !.capCtx = TRUE, !.startPc = "cap",
                            !.starts = starts + 1, !.startError = "none"])

\* start(): the microphone is granted; capture and playback get their worklet
\* nodes and WakeWordDetector.initialize() is awaited
StartCaptureReady ==
    /\ startPc = "cap"
    /\ capCtx
    /\ Commit([reset(World) EXCEPT !.capReady = TRUE, !.pbNode = TRUE,
                                   !.startPc = "ww"])

\* start(): the keyword engine is created; the playback callbacks are set and
\* ttsService.connect() is awaited
StartWakeWordReady ==
    /\ startPc = "ww"
    /\ Commit([World EXCEPT !.wwIsInitialized = TRUE, !.ttsWs = "connecting",
                            !.startPc = "tts"])

\* start(): the synthesis socket reports ready; the rest of start() runs
StartTtsReady ==
    /\ startPc = "tts"
    /\ ttsWs = "connecting"
    /\ LET S1 == [World EXCEPT !.ttsWs = "open", !.ttsIsConnected = TRUE,
                               !.ttsCallbacks = TRUE]
           S2 == startWakeWordListening(S1)
       IN  Commit([S2 EXCEPT !.isRunning = TRUE, !.startPc = "idle"])

\* start(): an awaited step rejects; the catch block runs cleanup()
StartFail ==
    /\ startPc \in {"cap", "ww", "tts"}
    /\ MayFail
    /\ Commit([startCatch(Fail(World)) EXCEPT !.startPc = "idle"])

\* start(): cleanup() ran while AudioCapture.initialize() or
\* ttsService.connect() was awaited; the continuation finds no audio context,
\* or the closed socket's error event rejects the promise, and the catch block
\* runs cleanup()
StartAborted ==
    /\ \/ startPc = "cap" /\ ~capCtx
       \/ startPc = "tts" /\ ttsWs # "connecting"
    /\ Commit([startCatch(World) EXCEPT !.startPc = "idle"])

\* click on the stop button
Stop ==
    /\ controls
    /\ Commit(stop(World))

\* the keyword engine reports a detection: WakeWordDetector.handleWakeWordDetected
WakeWord ==
    /\ wwIsInitialized
    /\ wwIsListening
    /\ turn < MaxTurns
    /\ FreeSockets(World) \cap (1..MaxSockets) # {}
    /\ Commit(handleWakeWordDetected(World))

\* captured frames reach AudioCapture's port handler: FramesPerStep frames of
\* the same kind, one call of the capture callback each
Frame ==
    \E speech \in BOOLEAN :
        /\ isCapturing
        /\ Commit(CaptureFrames(World, speech, FramesPerStep))

\* socket s opens, 'start' is sent and the proxy's 'ready' is handled
SttReady ==
    \E s \in Sockets :
        /\ sock[s].st = "connecting"
        /\ LET w == sock[s].waiter
               S1 == [World EXCEPT !.sock[s].st = "open", !.sock[s].waiter = 0,
                                   !.sttIsConnected = TRUE, !.reconnectAttempts = 0]
           IN  Commit(IF w # 0 THEN wakeConnected(S1, w) ELSE S1)

\* the connection attempt of socket s fails
SttConnFail ==
    \E s \in Sockets :
        /\ sock[s].st = "connecting"
        /\ MayFail
        /\ Commit(Fail([World EXCEPT !.sock[s].st = "failing"]))

\* ws.onerror of socket s: the promise of connect() is rejected, so a
\* handleWakeWordDetected awaiting it ends there
SttOnError ==
    \E s \in Sockets :
        /\ sock[s].st = "failing"
        /\ LET S1 == NoteError([World EXCEPT !.sock[s].st = "closing",
                                             !.sock[s].waiter = 0])
           IN  Commit(IF S1.sttCallbacks THEN handleError(NoteSurfaced(S1)) ELSE S1)

\* the transport of open socket s fails, with or without an error event
SttDrop ==
    \E s \in Sockets, withError \in BOOLEAN :
        /\ sock[s].st = "open"
        /\ MayFail
        /\ Commit(Fail([World EXCEPT !.sock[s].st = IF withError THEN "failing"
                                                     ELSE "closing"]))

\* ws.onclose of socket s
SttOnClose ==
    \E s \in Sockets :
        /\ sock[s].st = "closing"
        /\ Commit(handleDisconnect([World EXCEPT !.sock[s] = ClosedSock,
                                                 !.sttIsConnected = FALSE]))

\* STTService.handleDisconnect() after its delay
ReconnectTimer ==
    /\ reconnTimers > 0
    /\ FreeSockets(World) \cap (1..MaxSockets) # {}
    /\ Commit(sttConnect([World EXCEPT !.reconnTimers = reconnTimers - 1], 0))

\* the proxy's transcription on socket s completes with a transcript; job is
\* what the proxy would answer to a speak request
ProxyTranscript ==
    \E s \in Sockets, blank \in BOOLEAN, job \in 2..(MaxChunks + 1) :
        /\ sock[s].pBusy
        /\ LET S1 == [World EXCEPT !.sock[s].pBusy = FALSE]
           IN  Commit(IF sock[s].st = "open" /\ sttCallbacks
                      THEN handleFinalTranscript(S1, blank, job)
                      ELSE S1)

\* as ProxyTranscript, and the synthesis asked for will fail
ProxyTranscriptThenTtsError ==
    \E s \in Sockets :
        /\ sock[s].pBusy
        /\ MayFail
        /\ LET S1 == Fail([World EXCEPT !.sock[s].pBusy = FALSE])
           IN  Commit(IF sock[s].st = "open" /\ sttCallbacks
                      THEN handleFinalTranscript(S1, FALSE, -1)
                      ELSE S1)

\* the proxy's transcription on socket s fails: an 'error' message
ProxyTranscribeError ==
    \E s \in Sockets :
        /\ sock[s].pBusy
        /\ MayFail
        /\ LET S1 == Fail([World EXCEPT !.sock[s].pBusy = FALSE])
           IN  Commit(IF sock[s].st = "open" /\ sttCallbacks
                      THEN handleError(NoteError(S1))
                      ELSE S1)

\* the next message of the synthesis job of turn t reaches TTSService.handleMessage
TtsMessage ==
    \E t \in Turns, k \in 1..MaxChunkLen :
        /\ ttsJob[t] # 0
        /\ ttsWs = "open"
        /\ Len(pbEvents) < MaxEvents
        /\ LET j == ttsJob[t]
               S1 == [World EXCEPT !.ttsJob[t] = IF j = -1 THEN 0 ELSE j - 1]
           IN  Commit(IF j = -1
                      THEN (IF ttsCallbacks THEN handleError(NoteError(S1)) ELSE S1)
                      ELSE IF j = 1
                           THEN S1
                           ELSE IF ttsCallbacks
                                THEN handleTTSAudioChunk(NoteChunk(S1, t), k)
                                ELSE S1)

\* the synthesis socket closes: ws.onclose, after ws.onerror when withError
TtsDrop ==
    \E withError \in BOOLEAN :
        /\ ttsWs = "open"
        /\ MayFail
        /\ LET S1 == Fail([World EXCEPT !.ttsWs = "closed", !.ttsIsConnected = FALSE,
                                        !.ttsJob = NoJobs])
           IN  Commit(IF withError /\ ttsCallbacks
                      THEN handleError(NoteError(S1))
                      ELSE S1)

\* workletNode.port.onmessage of AudioPlayback
PlaybackEvent ==
    /\ pbEvents # <<>>
    /\ LET S1 == [World EXCEPT !.pbEvents = Tail(pbEvents)]
       IN  Commit(IF Head(pbEvents) = "started"
                  THEN handleSpeechStarted([S1 EXCEPT !.pbIsPlaying = TRUE])
                  ELSE handleSpeechEnded([S1 EXCEPT !.pbIsPlaying = FALSE]))

\* the rendering clock pulls one quantum
Render ==
    /\ pbNode
    /\ Len(pbEvents) < MaxEvents
    /\ Commit(process(World))

MaxTimer ==
    \E t \in maxTimers :
        Commit(maxDurationTimeout([World EXCEPT !.maxTimers = maxTimers \ {t}]))

ErrorTimer ==
    /\ errTimers > 0
    /\ Commit(returnToWakeWordListening([World EXCEPT !.errTimers = errTimers - 1]))

CooldownTimer ==
    /\ endTimers > 0
    /\ Commit(cooldownTimeout([World EXCEPT !.endTimers = endTimers - 1]))

Next ==
    \/ Start \/ StartCaptureReady \/ StartWakeWordReady \/ StartTtsReady
    \/ StartFail \/ StartAborted \/ Stop
    \/ WakeWord \/ Frame
    \/ SttReady \/ SttConnFail \/ SttOnError \/ SttDrop \/ SttOnClose \/ ReconnectTimer
    \/ ProxyTranscript \/ ProxyTranscriptThenTtsError \/ ProxyTranscribeError
    \/ TtsMessage \/ TtsDrop
    \/ PlaybackEvent \/ Render
    \/ MaxTimer \/ ErrorTimer \/ CooldownTimer

Spec == Init /\ [][Next]_vars

(***************************************************************************)
(* What the event loop does on its own: a timer that is due fires, a       *)
(* message in flight is delivered, the proxy answers, the rendering clock  *)
(* ticks.  Clicks, wake words, failures and captured frames are not part   *)
(* of it.                                                                  *)
(***************************************************************************)
Scheduled ==
    \/ StartCaptureReady \/ StartWakeWordReady \/ StartTtsReady \/ StartAborted
    \/ SttReady \/ SttOnError \/ SttOnClose \/ ReconnectTimer
    \/ ProxyTranscript
    \/ TtsMessage
    \/ PlaybackEvent \/ Render
    \/ MaxTimer \/ ErrorTimer \/ CooldownTimer

\* some scheduled event is due that changes the state; a reconnect timer
\* counts as due also when the run creates no more sockets
Due == reconnTimers > 0 \/ ENABLED <<Scheduled>>_vars

\* the capture callback analyses the frames it is handed; otherwise a frame
\* changes nothing
Analysing == isProcessing /\ sttIsConnected /\ ~audioStreamingStopped

(***************************************************************************)
(* The end-of-turn detector frame by frame: the assistant is started, a    *)
(* wake word opens a turn, and every captured frame is one step.           *)
(***************************************************************************)
VadFrame ==
    \E speech \in BOOLEAN :
        /\ isCapturing
        /\ Analysing
        /\ obs.frameNo < MaxFrames
        /\ LET f == obs.frameNo + 1
               S1 == captureCallback(World, speech, f)
           IN  Commit([S1 EXCEPT
                   !.obs.frameNo = f,
                   !.obs.lastSpeechFrame = IF speech THEN f ELSE S1.obs.lastSpeechFrame,
                   !.obs.silenceAt = IF S1.silenceTriggered /\ ~silenceTriggered
                                     THEN f ELSE S1.obs.silenceAt])

VadNext ==
    \/ Start \/ StartCaptureReady \/ StartWakeWordReady \/ StartTtsReady
    \/ WakeWord \/ SttReady \/ VadFrame \/ MaxTimer \/ ProxyTranscript

SpecVAD == Init /\ [][VadNext]_vars

(***************************************************************************)
(* The ring buffer on its own: any sequence of write, read and reset.      *)
(***************************************************************************)
RingWrite ==
    \E k \in 1..MaxWrite :
        /\ Len(pbEvents) < MaxEvents
        /\ ringLog.written + k <= MaxSamples
        /\ LET S1 == addAudioData(World, [i \in 1..k |-> ringLog.written + i])
           IN  Commit([S1 EXCEPT
                   !.lastWrite = k,
                   !.ringLog.written = ringLog.written + k,
                   !.ringLog.lossy = ringLog.lossy
                                     \/ S1.samplesAvailable < samplesAvailable + k,
                   !.ringLog.drained = FALSE,
                   !.ringLog.ended = 0])

RingRead ==
    /\ Len(pbEvents) < MaxEvents
    /\ LET S1 == process(World)
           k == samplesAvailable - S1.samplesAvailable
       IN  Commit([S1 EXCEPT
               !.lastWrite = 0,
               !.ringLog.played = ringLog.played \o SubSeq(S1.channelData, 1, k),
               !.ringLog.drained = ringLog.drained
                                   \/ (isPlaying /\ samplesAvailable < BlockSize),
               !.ringLog.ended = IF S1.pbEvents # pbEvents
                                 THEN Count(ringLog.ended) ELSE ringLog.ended])

RingReset ==
    Commit([reset(World) EXCEPT !.lastWrite = 0, !.ringLog.lossy = TRUE,
                                !.ringLog.drained = FALSE, !.ringLog.ended = 0])

RingDeliver ==
    /\ pbEvents # <<>>
    /\ Commit([World EXCEPT !.pbEvents = Tail(pbEvents)])

RingNext == RingWrite \/ RingRead \/ RingReset \/ RingDeliver

SpecRing == Init /\ [][RingNext]_vars

(***************************************************************************)
(* The capture worklet on its own: the platform calls process() with input *)
(* blocks of any length and any sample values.                             *)
(***************************************************************************)
ChunkProcess ==
    \E n \in 1..MaxBlock :
        /\ Len(capInput) + n <= MaxInput
        /\ \E block \in [1..n -> Levels] :
               Commit([captureProcess(World, block, 1) EXCEPT
                          !.capInput = capInput \o block])

ChunkNext == ChunkProcess

SpecChunk == Init /\ [][ChunkNext]_vars

(***************************************************************************)
(* The proxy's synthesis connection on its own.                            *)
(***************************************************************************)
\* a 'start' message is answered by 'ready'
TtsStartMsg ==
    /\ ttsWire = <<>>
    /\ Commit(wireSend(World, 0, "ready", 0))

\* a 'speak' message is received: synthesizeSpeech is awaited
TtsSpeakMsg ==
    \E r \in Requests :
        /\ ttsReq[r].pc = "none"
        /\ \A q \in 1..(r - 1) : ttsReq[q].pc # "none"
        /\ Commit([World EXCEPT !.ttsReq[r].pc = "synth"])

\* synthesizeSpeech of request r resolves with an audioContent of n chunks
TtsSynthesized ==
    \E r \in Requests, n \in 0..MaxChunks :
        /\ ttsReq[r].pc = "synth"
        /\ Commit(synthLoop([World EXCEPT !.ttsReq[r].pc = "stream",
                                          !.ttsReq[r].len = n], r))

\* synthesizeSpeech of request r rejects: the catch block sends 'error'
TtsSynthFailed ==
    \E r \in Requests :
        /\ ttsReq[r].pc = "synth"
        /\ Commit(wireSend([World EXCEPT !.ttsReq[r].pc = "finished"], r, "error", 0))

\* the 10 ms timer of the loop of request r fires
TtsChunkTimer ==
    \E r \in Requests :
        /\ ttsReq[r].pc = "stream"
        /\ Commit(synthLoop(World, r))

TtsNext ==
    TtsStartMsg \/ TtsSpeakMsg \/ TtsSynthesized \/ TtsSynthFailed \/ TtsChunkTimer

SpecTts == Init /\ [][TtsNext]_vars

(***************************************************************************)
(* The latency classification on its own: a response starts with any       *)
(* latency, and the return to listening clears the display.                *)
(***************************************************************************)
Classify ==
    /\ ~latencyUi.shown
    /\ \E latency \in 0..MaxElapsed : Commit(reportLatency(World, latency))

LatencyReset ==
    /\ latencyUi.shown
    /\ Commit([World EXCEPT !.latencyUi = NoLatency])

LatencyNext == Classify \/ LatencyReset

SpecLatency == Init /\ [][LatencyNext]_vars

(***************************************************************************)
(* The knowledge base on its own: it is loaded or not, and one question is *)
(* put to it.                                                              *)
(***************************************************************************)
KbLoad ==
    /\ ~kbIsLoaded
    /\ Commit(load([World EXCEPT !.normalizedData = <<>>, !.keywords = <<>>], KbData))

KbAsk ==
    /\ ~asked.asked
    /\ \E question \in Texts : Commit(ask(World, question))

KbNext == KbLoad \/ KbAsk

SpecKb == Init /\ [][KbNext]_vars

(***************************************************************************)
(* The sample conversions on their own: a sample is converted to 16-bit    *)
(* PCM by the capture side and back by the playback side.                  *)
(***************************************************************************)
PcmConvert ==
    /\ ~pcm.done
    /\ \E x \in (-(Unit + Over))..(Unit + Over) :
           LET v == float32ToInt16(x)
           IN  Commit([World EXCEPT !.pcm = [done |-> TRUE, x |-> x, int16 |-> v,
                                             num |-> v, den |-> int16ToFloat32(v)]])

PcmNext == PcmConvert

SpecPcm == Init /\ [][PcmNext]_vars

(***************************************************************************)
(* The wake-word detector on its own, with a clock: it is initialized,     *)
(* started and stopped, the keyword engine reports detections at any time  *)
(* and the callback does not touch the detector.                           *)
(***************************************************************************)
WakeInit ==
    /\ ~wwIsInitialized
    /\ Commit([World EXCEPT !.wwIsInitialized = TRUE])

WakeStart ==
    /\ wwIsInitialized /\ ~wwIsListening
    /\ Commit([wwStart(World) EXCEPT !.wakeLog.stopped = FALSE])

WakeStop ==
    /\ wwIsListening
    /\ Commit([wwStop(World) EXCEPT !.wakeLog.stopped = TRUE])

WakeCleanup ==
    /\ wwIsInitialized
    /\ Commit([wwCleanup(World) EXCEPT !.wakeLog.stopped = TRUE])

\* the keyword engine reports a detection; one on its way is delivered also
\* after stop() and cleanup()
WakeDetect ==
    /\ now <= MaxClock
    /\ Commit(detected(World))

Tick ==
    /\ now + TickMs <= MaxClock
    /\ Commit([World EXCEPT !.now = now + TickMs])

WakeNext ==
    WakeInit \/ WakeStart \/ WakeStop \/ WakeCleanup \/ WakeDetect \/ Tick

SpecWake == Init /\ [][WakeNext]_vars

(***************************************************************************)
(* Properties                                                              *)
(***************************************************************************)
\* C1: at most one turn session is active at any time, and while a session is
\* active the wake-word detector is disarmed, so that no further detection is
\* accepted before the orchestrator has returned to Listening.
C1_OneActiveSession ==
    /\ sessions <= 1
    /\ sessions = 1 => ~wwIsListening

\* stop() has completed and no start() is in flight
Stopped == starts > 0 /\ ~controls /\ uiStatus = "idle" /\ startPc = "idle"

\* a transcription socket is open, opening, or will be re-opened by
\* STTService.handleDisconnect
SttStreamAlive ==
    \/ \E s \in Sockets : sock[s].st \in {"connecting", "open"}
    \/ reconnTimers > 0
    \/ /\ reconnectAttempts < maxReconnectAttempts
       /\ \E s \in Sockets : sock[s].st \in {"failing", "closing"}

\* C2: after stop() the system is Idle (not running, detector disarmed,
\* capture stopped), no timer is pending and no transcription or synthesis
\* stream is open or about to be re-opened.
C2_StopLeavesIdle ==
    Stopped =>
        /\ ~isRunning /\ ~wwIsListening /\ ~isCapturing
        /\ maxTimers = {} /\ errTimers = 0 /\ endTimers = 0
        /\ ~SttStreamAlive
        /\ ttsWs \in {"null", "closed"}

\* C3: while the system is running, a turn in which an error was reported
\* does not stay stuck outside Listening: until the turn is over something
\* that brings it forward (the backoff timer, a message, a frame under
\* analysis) is due.
C3_ErrorReturnsToListening ==
    (isRunning /\ sessions = 1 /\ obs.errors > 0) => (Analysing \/ Due)

\* a blank final transcript reaches VoiceAssistant.handleFinalTranscript
BlankTranscript ==
    \E s \in Sockets :
        /\ sock[s].pBusy
        /\ sock[s].st = "open"
        /\ sttCallbacks
        /\ Commit(handleFinalTranscript([World EXCEPT !.sock[s].pBusy = FALSE],
                                        TRUE, 2))

\* C4: the step that handles a blank final transcript invokes no synthesis
\* and returns directly to Listening: the turn is over, the transcription
\* client holds no stream and, the assistant running, the wake-word detector is
\* armed again.
C4_BlankTranscriptReturns ==
    [][BlankTranscript =>
          /\ obs'.speaks = obs.speaks
          /\ ttsJob' = ttsJob
          /\ ~isProcessing' /\ sessions' = 0
          /\ sttWs' = 0 /\ ~sttIsConnected'
          /\ isRunning => (wwIsListening' /\ uiStatus' = "listening")]_vars

\* a blank transcript has ended a turn of a running assistant without synthesis
C4_Witness ==
    /\ obs.blanks > 0 /\ obs.speaks = 0
    /\ isRunning /\ sessions = 0 /\ turn > 0
    /\ wwIsListening /\ isWaitingForWakeWord

\* C5: a turn whose transcript was not blank, and so asked for synthesis,
\* does not remain in Speaking forever, whatever the length of the synthesized
\* audio and whatever the state of the synthesis connection: until the turn is
\* over something that brings it forward is due.
C5_SpeakingReturns ==
    (isRunning /\ sessions = 1 /\ obs.speaks > 0) => (Analysing \/ Due)

\* C6: every turn that has entered ProcessingSpeech reaches Ended also when
\* its frames never produce a silence timeout: until the end of the turn has
\* been signalled, something other than a captured frame is due (the
\* max-duration timer or what arms it).
C6_TurnEnds ==
    (isRunning /\ sessions = 1 /\ obs.speechEnds = 0) => Due

\* C7: within a turn the silence timeout is signalled at exactly the first
\* frame at which 30 consecutive silent frames have been seen since the most
\* recent speech frame, never earlier and never later; a speech frame resets
\* the silence count to zero and silent frames before the first speech frame
\* are not counted.
C7_SilenceTimeout ==
    sessions = 1 =>
        /\ silenceTriggered = (obs.silenceAt # 0)
        /\ obs.silenceAt # 0 =>
               /\ obs.lastSpeechFrame # 0
               /\ obs.silenceAt = obs.lastSpeechFrame + 30
        /\ (obs.lastSpeechFrame # 0 /\ obs.frameNo >= obs.lastSpeechFrame + 30) =>
               obs.silenceAt = obs.lastSpeechFrame + 30
        /\ hasSpeech = (obs.lastSpeechFrame # 0)
        /\ consecutiveSilenceFrames =
               IF obs.lastSpeechFrame = 0 THEN 0 ELSE obs.frameNo - obs.lastSpeechFrame

\* ten frames ending in speech and then thirty silent frames: timeout at frame 40
C7_Witness ==
    /\ sessions = 1
    /\ obs.lastSpeechFrame = 10
    /\ obs.silenceAt = 40

\* C8: within one turn the end of turn is signalled exactly once: one
\* speech-end timestamp is taken and one transcribe request is sent.
C8_EndOfTurnOnce ==
    sessions = 1 => (obs.speechEnds <= 1 /\ obs.finalizes <= 1)

\* C9: synthesis audio is handled only inside the session that asked for it;
\* what arrives after that session was cancelled or has ended is dropped.
C9_LateCallbacksDropped == obs.stale = 0

\* C10: in every reachable state of the playback ring buffer
\* 0 <= available <= capacity and both indices lie in [0, capacity), also
\* after a write of more than capacity samples.
C10_RingBounds ==
    /\ samplesAvailable \in 0..bufferSize
    /\ writeIndex \in 0..(bufferSize - 1)
    /\ readIndex \in 0..(bufferSize - 1)

\* a write of more than capacity samples has just been applied
C10_Witness ==
    /\ lastWrite > bufferSize
    /\ samplesAvailable = bufferSize - 1

\* the samples that can still be read, oldest first
Readable ==
    [i \in 1..samplesAvailable |-> audioBuffer[(readIndex + i - 1) % bufferSize]]

\* the readable samples are the most recently written ones, in written order
MostRecent ==
    \A i \in 1..samplesAvailable :
        Readable[i] = ringLog.written - samplesAvailable + i

\* C11: a write never fails, and it discards samples only when it would push
\* available beyond capacity, and then exactly the oldest unread ones: after a
\* write of k samples min(available + k, capacity) samples are readable and
\* they are the most recently written ones, in written order.
C11_OverwriteOldest ==
    [][ringLog'.written # ringLog.written =>
          /\ LET total == samplesAvailable + (ringLog'.written - ringLog.written)
             IN  samplesAvailable' = IF total > bufferSize THEN bufferSize ELSE total
          /\ MostRecent']_vars

\* this step posts the message e
Posts(e) == pbEvents' = Append(pbEvents, e)

\* this step is a write to the ring
Writes == ringLog'.written # ringLog.written

\* C12: "started" is posted exactly once per priming: a step posts it exactly
\* when it takes the buffer from unprimed to primed, which is exactly when a
\* write to the unprimed buffer leaves at least jitterBufferSize samples
\* available; an unprimed buffer always holds fewer than that, and no write or
\* read posts it while the buffer stays primed.
C12_StartedOncePerPriming ==
    /\ [](~isPlaying => samplesAvailable < jitterBufferSize)
    /\ [][/\ Posts("started") <=> (~isPlaying /\ isPlaying')
          /\ Posts("started") <=>
                 (Writes /\ ~isPlaying /\ samplesAvailable' >= jitterBufferSize)
          /\ Len(pbEvents') <= Len(pbEvents) + 1]_vars

\* the buffer was primed by a write that brought it exactly to the threshold,
\* has been read from and written to again, and one "started" was posted
C12_Witness ==
    /\ isPlaying /\ pbEvents = <<"started">>
    /\ ~ringLog.lossy
    /\ ringLog.written = jitterBufferSize + lastWrite /\ lastWrite > 0
    /\ ringLog.played # <<>>

\* C13: whenever reads have drained a primed buffer to empty and gone on
\* reading with no further write, whatever amount was buffered and whatever the
\* read size, exactly one "ended" has been posted and the buffer is unprimed.
C13_EndedOnDrain ==
    ringLog.drained => (~isPlaying /\ ringLog.ended = 1)

\* C14: a read from an unprimed buffer returns only silence and consumes
\* nothing: the indices, the count and the buffered samples are unchanged, the
\* buffer stays unprimed and no message is posted.
C14_UnprimedReadIsSilent ==
    [][(RingRead /\ ~isPlaying) =>
          /\ channelData' = ZeroBlock
          /\ UNCHANGED <<audioBuffer, writeIndex, readIndex, samplesAvailable,
                         isPlaying, pbEvents>>
          /\ ringLog'.played = ringLog.played]_vars

\* samples below the threshold are buffered and a read has returned silence
C14_Witness ==
    /\ ~isPlaying /\ samplesAvailable > 0
    /\ lastWrite = 0 /\ channelData = ZeroBlock
    /\ ~ringLog.lossy /\ ringLog.played = <<>>

\* C15: for any interleaving of writes and reads the samples read out of the
\* buffer are a subsequence of the written sequence in the same order (the
\* i-th sample written has the value i, so: written values, strictly
\* increasing), and as long as no overflow and no reset has occurred they are
\* a gap-free prefix of it.
C15_ReadInWrittenOrder ==
    LET played == ringLog.played
    IN  /\ \A i \in 1..Len(played) : played[i] \in 1..ringLog.written
        /\ \A i \in 1..(Len(played) - 1) : played[i] < played[i + 1]
        /\ ~ringLog.lossy => \A i \in 1..Len(played) : played[i] = i

\* samples were read before and after an overflow dropped some in between
C15_Witness ==
    /\ ringLog.lossy
    /\ Len(ringLog.played) >= 3
    /\ ringLog.played[1] = 1
    /\ \E i \in 1..(Len(ringLog.played) - 1) :
           ringLog.played[i + 1] > ringLog.played[i] + 1

\* C16: reset() from any state leaves the buffer empty and unprimed
\* (writeIndex = readIndex = 0, available = 0, not playing, samples cleared),
\* posts no message and is idempotent; after it the buffer is primed by a write
\* exactly when the write brings jitterBufferSize fresh samples.  The same
\* holds of AudioPlayback.reset() on an initialized playback.
C16_ResetClears ==
    LET R == reset(World)
        P == pbReset([World EXCEPT !.pbNode = TRUE])
    IN  /\ R.writeIndex = 0 /\ R.readIndex = 0 /\ R.samplesAvailable = 0
        /\ ~R.isPlaying /\ R.audioBuffer = Silence
        /\ R.pbEvents = pbEvents
        /\ reset(R) = R
        /\ \A k \in 0..MaxWrite :
               addAudioData(R, [i \in 1..k |-> Tone]).isPlaying
                   = (k >= jitterBufferSize)
        /\ P = [R EXCEPT !.pbNode = TRUE, !.pbIsPlaying = FALSE]

\* a buffer that had been primed has been reset while a message was pending
C16_Witness ==
    /\ ringLog.written >= jitterBufferSize
    /\ audioBuffer = Silence
    /\ writeIndex = 0 /\ readIndex = 0 /\ samplesAvailable = 0 /\ ~isPlaying
    /\ pbEvents # <<>>

\* C17: however the input is split into blocks, the chunker has posted
\* floor(total / frameSize) frames, each of exactly frameSize samples, which
\* are the input samples in input order with none duplicated or dropped; the
\* incomplete remainder is kept in the buffer for the next frame and is not
\* posted.
C17_FrameChunker ==
    LET n == Len(capInput)
        q == n \div captureBufferSize
    IN  /\ Len(capPosted) = q
        /\ \A f \in 1..q :
               /\ DOMAIN capPosted[f] = 1..captureBufferSize
               /\ \A j \in 1..captureBufferSize :
                      capPosted[f][j] =
                          float32ToInt16(capInput[(f - 1) * captureBufferSize + j])
        /\ bufferIndex = n % captureBufferSize
        /\ \A j \in 0..(bufferIndex - 1) :
               buffer[j] = capInput[q * captureBufferSize + j + 1]

\* two frames have been posted and one sample waits for the third
C17_Witness ==
    /\ Len(capPosted) = 2
    /\ bufferIndex = 1
    /\ Len(capInput) = 2 * captureBufferSize + 1

\* the frames in the proxies' buffers, socket by socket
RECURSIVE AtProxy(_)
AtProxy(s) == IF s > MaxTurnSockets THEN <<>> ELSE obs.proxy[s] \o AtProxy(s + 1)

C19_ReconnectThenFatal ==
    /\ reconnectAttempts <= maxReconnectAttempts
    /\ obs.surfacedAt \subseteq {maxReconnectAttempts}

\* C20: two consecutive invocations of the wake callback are at least
\* cooldownMs apart: a detection within cooldownMs of an invocation is ignored.
C20_CooldownWindow ==
    \A i \in 1..(Len(wakeLog.calls) - 1) :
        wakeLog.calls[i + 1] - wakeLog.calls[i] >= cooldownMs

\* a detection inside the window was ignored and the next invocation came
\* exactly cooldownMs after the first
C20_Witness ==
    /\ Len(wakeLog.calls) = 2
    /\ wakeLog.calls[2] = wakeLog.calls[1] + cooldownMs
    /\ wakeLog.ignored > 0

\* the messages of request r, in the order the client receives them
WireOf(r) == SelectSeq(ttsWire, LAMBDA m : m.req = r)

\* C21: of every speak request the client receives the audio chunks in the
\* order of the synthesized audio and then one terminating message, done or
\* error; nothing of the request follows its terminating message, and a request
\* that is over has sent exactly one, a done only after all of its chunks;
\* also when requests overlap.
C21_ChunksThenOneTerminator ==
    \A r \in Requests :
        LET w == WireOf(r)
        IN  /\ \A i \in 1..Len(w) :
                  IF w[i].type = "audio" THEN w[i].i = i
                  ELSE w[i].type \in {"done", "error"} /\ i = Len(w)
            /\ ttsReq[r].pc = "finished" =>
                  /\ w # <<>>
                  /\ w[Len(w)].type \in {"done", "error"}
                  /\ w[Len(w)].type = "done" => Len(w) = ttsReq[r].len + 1
            /\ ttsReq[r].pc # "finished" =>
                  \A i \in 1..Len(w) : w[i].type = "audio"

\* two requests overlapped: both are over and a message of the second lies
\* between two audio chunks of the first
C21_Witness ==
    /\ ttsReq[1].pc = "finished" /\ ttsReq[2].pc = "finished"
    /\ \E i, j, k \in 1..Len(ttsWire) :
           /\ i < j /\ j < k
           /\ ttsWire[i].req = 1 /\ ttsWire[i].type = "audio"
           /\ ttsWire[j].req = 2
           /\ ttsWire[k].req = 1 /\ ttsWire[k].type = "audio"

\* C22: every latency gets exactly one class: at most the target (so 799) it
\* is "target met", above the warning threshold and at most the critical one
\* (so 1201) it is a warning, above the critical threshold (so 1501) it is
\* critical, and the display and the log agree.
C22_LatencyBands ==
    latencyUi.shown =>
        /\ latencyUi.level \in {"excellent", "good", "high", "critical"}
        /\ latencyUi.ms < targetMs => latencyUi.level = "excellent"
        /\ (latencyUi.ms > warningMs /\ latencyUi.ms <= criticalMs) =>
               (latencyUi.level = "high" /\ latencyUi.cls = "slow")
        /\ latencyUi.ms > criticalMs =>
               (latencyUi.level = "critical" /\ latencyUi.cls = "very-slow")
        /\ latencyUi.ms <= warningMs =>
               (latencyUi.level \in {"excellent", "good"} /\ latencyUi.cls = "")

\* the latency the critical band ends with has been classified
C22_Witness ==
    latencyUi.shown /\ latencyUi.ms = criticalMs /\ latencyUi.level = "high"

\* C23: a latency sample is computed from the end-of-speech timestamp of the
\* turn in which the playback "started" event is handled, and a turn reports
\* at most one sample.
C23_OneLatencyPerTurn ==
    /\ obs.latencies <= 1
    /\ obs.latencyFrom \subseteq {turn}

\* C24: getAnswer returns a string that is not empty for every question: the
\* answer found, otherwise the default response, also when the knowledge base
\* is not loaded or the answer stored with the entry is empty.
C24_AnswerNeverEmpty ==
    asked.asked =>
        /\ ~asked.found.threw
        /\ asked.answer # ""
        /\ (asked.found.answer.found /\ asked.found.answer.text # "")
               => asked.answer = asked.found.answer.text
        /\ (~asked.found.answer.found \/ asked.found.answer.text = "")
               => asked.answer = getDefaultResponse

\* C25: the strategies are tried in priority order.  A question whose
\* normalized form is the normalized key of an entry gets that entry's answer,
\* whatever other entries contain it, are contained in it or resemble it; and
\* otherwise, when some entry contains the normalized question or is contained
\* in it, the answer is that of such an entry and no similarity is consulted.
C25_StrategyOrder ==
    (asked.asked /\ asked.found.log # "not loaded") =>
        LET q == normalize(asked.question)
            n == Len(normalizedData)
            exact == {i \in 1..n : normalizedData[i].key = q}
            contain == {i \in 1..n : \/ includes(q, normalizedData[i].key)
                                     \/ includes(normalizedData[i].key, q)}
        IN  /\ exact # {} =>
                /\ asked.found.log = "exact"
                /\ \E i \in exact : asked.found.answer = Answer(normalizedData[i].value)
            /\ (exact = {} /\ contain # {}) =>
                /\ asked.found.log = "contains"
                /\ \E i \in contain : asked.found.answer = Answer(normalizedData[i].value)

\* the question "BBB?" has been asked: it is the key of the third entry after
\* normalization, the second entry contains it and the answer is the third's
C25_Witness ==
    /\ asked.asked
    /\ asked.question = <<"B", "B", "B", "?">>
    /\ asked.found.log = "exact"
    /\ asked.found.answer = Answer("three")
    /\ includes(normalizedData[2].key, normalize(asked.question))

\* C26: when no entry matches exactly or by containment, the answer returned
\* is that of an entry whose similarity 1 - distance / max(len1, len2) to the
\* normalized question is at least 0.5 and is the highest of all entries; when
\* no entry has a similarity of at least 0.5, the default response is returned
\* (as it is in place of an answer that is stored empty).
C26_SimilarityFloor ==
    (asked.asked /\ asked.found.log # "not loaded" /\ ~asked.found.threw) =>
        LET q == normalize(asked.question)
            n == Len(normalizedData)
            sim(i) == calculateLevenshtein(q, normalizedData[i].key)
            half == [num |-> 1, den |-> 2]
            matched == \E i \in 1..n : \/ normalizedData[i].key = q
                                       \/ includes(q, normalizedData[i].key)
                                       \/ includes(normalizedData[i].key, q)
            clear == {i \in 1..n : AtLeast(sim(i), half)}
            best == {i \in clear : \A j \in 1..n : AtLeast(sim(i), sim(j))}
        IN  ~matched =>
                IF clear = {}
                THEN asked.answer = getDefaultResponse
                ELSE \E i \in best :
                         asked.answer = IF normalizedData[i].value # ""
                                        THEN normalizedData[i].value
                                        ELSE getDefaultResponse

C28_RoundTrip ==
    (pcm.done /\ pcm.x >= -Unit /\ pcm.x <= Unit) =>
        LET d == pcm.x * pcm.den - pcm.num * Unit
            dist == IF d < 0 THEN -d ELSE d
        IN  /\ pcm.int16 \in -32768..32767
            /\ dist * 32768 <= Unit * pcm.den

\* C28, amended: every PCM value produced is in -32768..32767 (also for
\* samples beyond full scale), and a sample in [-1, 1] that is converted to PCM
\* and back differs from the original by less than one step of the scale its
\* sign is converted with: 1/32767 for a sample that is not negative, 1/32768
\* for a negative one.
C28_RoundTripBySign ==
    pcm.done =>
        /\ pcm.int16 \in -32768..32767
        /\ (pcm.x >= -Unit /\ pcm.x <= Unit) =>
               LET d == pcm.x * pcm.den - pcm.num * Unit
                   dist == IF d < 0 THEN -d ELSE d
               IN  dist < Unit

\* the sample 2/65535, between 1/32768 and 1/32767, has become the PCM value 0
C28_Witness ==
    pcm.done /\ pcm.x = 2 /\ pcm.int16 = 0 /\ pcm.den = 32767

(***************************************************************************)
(* Captured frames and the phase of the orchestrator                       *)
(***************************************************************************)
\* C29: a captured frame is forwarded to the transcription client and fed to
\* the end-of-turn detector only while the orchestrator is in
\* ProcessingSpeech (a turn is open and no answer has been handed to the
\* synthesis), the transcription stream is open and the turn has not ended;
\* in every other state a step of the capture callback changes nothing.
C29_FramesOnlyWhileProcessing ==
    [][Frame => /\ isRunning /\ isCapturing
                /\ isProcessing
                /\ obs.speaks = 0
                /\ sttIsConnected
                /\ obs.speechEnds = 0]_vars

(***************************************************************************)
(* One turn after another: the assistant is started and is not stopped,    *)
(* nothing fails, and a wake word may open a second turn once the first    *)
(* has returned to listening.  The timers of the first turn are still      *)
(* there.                                                                  *)
(***************************************************************************)
WakeWordAgain ==
    /\ wwIsInitialized
    /\ wwIsListening
    /\ turn < MaxTimerTurns
    /\ FreeSockets(World) # {}
    /\ Commit(handleWakeWordDetected(World))

\* STTService.handleDisconnect() after its delay
ReconnectAgain ==
    /\ reconnTimers > 0
    /\ FreeSockets(World) # {}
    /\ Commit(sttConnect([World EXCEPT !.reconnTimers = reconnTimers - 1], 0))

TurnsNext ==
    \/ Start \/ StartCaptureReady \/ StartWakeWordReady \/ StartTtsReady
    \/ WakeWordAgain \/ Frame
    \/ SttReady \/ SttOnClose \/ ReconnectAgain
    \/ ProxyTranscript
    \/ TtsMessage
    \/ PlaybackEvent \/ Render
    \/ MaxTimer \/ CooldownTimer

SpecTurns == Init /\ [][TurnsNext]_vars

\* C30: the max-duration timer armed for a turn ends that turn only: when it
\* fires in a later turn it neither stops the audio streaming of that turn
\* nor sets its speech-end time nor requests its transcription.
C30_TimerEndsOwnTurn ==
    [][\A t \in maxTimers :
           (maxTimers' = maxTimers \ {t} /\ t # turn)
               => /\ audioStreamingStopped' = audioStreamingStopped
                  /\ speechEndTime' = speechEndTime
                  /\ obs'.speechEnds = obs.speechEnds
                  /\ obs'.finalizes = obs.finalizes]_vars

(***************************************************************************)
(* The transcription client's connection                                   *)
(***************************************************************************)
\* C31: after a deliberate disconnect() the transcription client stays
\* disconnected until connect() is called again.  disconnect() is what sets
\* ws to null, and the orchestrator calls connect() only when a wake word
\* opens a turn: while ws is null the client is not active, and a socket
\* appears only in the step that opens a new turn.
C31_DisconnectIsFinal ==
    /\ [](sttWs = 0 => ~sttIsConnected)
    /\ [][(sttWs = 0 /\ sttWs' # 0) => turn' = turn + 1]_vars

\* C32: the transcription client holds at most one open connection: no two
\* sockets are open at the same time, and during a turn the socket in use
\* (the one the client refers to, opening or open) is not replaced by
\* another one.
C32_OneConnection ==
    [][/\ Cardinality({s \in Sockets : sock'[s].st = "open"}) <= 1
       /\ (/\ isProcessing /\ isProcessing' /\ turn' = turn
           /\ sttWs # 0 /\ sock[sttWs].st \in {"connecting", "open"})
              => sttWs' \in {sttWs, 0}]_vars

(***************************************************************************)
(* Returns to listening                                                    *)
(***************************************************************************)
\* C33: a turn causes at most one return to Listening: while a turn is open
\* at most one return is asked for, whatever is reported for the turn
\* (several error reports for one failure, an error and a playback 'ended'
\* event).  Every return asked for is carried out: the backoff timer calls
\* returnToWakeWordListening unconditionally, the cooldown timer while the
\* assistant is running.
C33_OneReturnPerTurn == obs.returns <= 1

(***************************************************************************)
(* The status shown                                                        *)
(***************************************************************************)
\* C34: the orchestrator reports the status speaking only during a turn: a
\* playback 'started' event is handled (the status becomes speaking) only
\* while the assistant is running with a turn open, never while the
\* wake-word detector is armed or the system is idle.
C34_SpeakingOnlyInTurn ==
    uiStatus = "speaking" => (isRunning /\ isProcessing /\ ~wwIsListening)

(***************************************************************************)
(* start() and stop()                                                      *)
(***************************************************************************)
\* C35: start() and stop() do not race.  The controls are disabled exactly
\* when the last thing asked for is a stop (or nothing was asked for yet):
\* from then on, also when a start() that was awaiting an initialization
\* step resumes, the running flag is not set and wake-word listening is not
\* armed.
C35_StopWinsOverStart ==
    ~controls => (~isRunning /\ ~isWaitingForWakeWord /\ ~wwIsListening)

(***************************************************************************)
(* The indices of the ring                                                 *)
(***************************************************************************)
\* C36: in every reachable state of the playback ring buffer the indices
\* agree with the count: (readIndex + samplesAvailable) mod bufferSize is
\* writeIndex, also after an overflow and after a reset.
C36_IndicesMatchCount ==
    (readIndex + samplesAvailable) % bufferSize = writeIndex

\* after an overflow and a read the unread samples wrap around the end of
\* the buffer
C36_Witness ==
    /\ ringLog.lossy /\ ringLog.written > bufferSize
    /\ samplesAvailable \in 1..(bufferSize - 2)
    /\ readIndex > writeIndex

(***************************************************************************)
(* One transcription connection of the proxy on its own: the client sends  *)
(* audio and transcribe messages in any order, the backend answers.        *)
(***************************************************************************)
ConnAudio ==
    /\ conn.received < MaxAudio
    /\ Commit([World EXCEPT !.conn = sttMessage(conn, "audio")])

ConnTranscribe ==
    /\ conn.asked < MaxTranscribes
    /\ Commit([World EXCEPT !.conn = sttMessage(conn, "transcribe")])

\* the backend call resolves or rejects
ConnSettled ==
    /\ conn.inFlight > 0
    /\ Commit([World EXCEPT !.conn = transcribeSettled(conn)])

ConnNext == ConnAudio \/ ConnTranscribe \/ ConnSettled

SpecConn == Init /\ [][ConnNext]_vars

\* C37: every transcribe request on a transcription connection is answered
\* by exactly one message, a transcript or an error.  Replies are sent only
\* when a transcription settles: whenever none is in flight, as many replies
\* have been sent as requests were received, and never more.
C37_EveryRequestAnswered ==
    /\ conn.replies <= conn.asked
    /\ ~conn.isTranscribing => conn.replies = conn.asked

\* C38: each audio message received on a transcription connection is part
\* of exactly one backend request, in arrival order: the requests made so
\* far followed by the buffer are the messages received, each once and in
\* order; at most one transcription is in flight, and isTranscribing tells
\* whether one is.
C38_AudioOncePerRequest ==
    /\ LET RECURSIVE Flatten(_)
           Flatten(ss) == IF ss = <<>> THEN <<>>
                          ELSE Head(ss) \o Flatten(Tail(ss))
       IN  Flatten(conn.requests) \o conn.audioBuffer
               = [i \in 1..conn.received |-> i]
    /\ conn.inFlight <= 1
    /\ conn.isTranscribing <=> conn.inFlight = 1

\* audio arrived while a transcription was in flight and went into the next
\* request
C38_Witness ==
    /\ Len(conn.requests) = 2
    /\ conn.requests[1] = <<1, 2>>
    /\ conn.requests[2] = <<3>>
    /\ conn.replies = 1 /\ conn.isTranscribing
    /\ conn.audioBuffer = <<4>>

(***************************************************************************)
(* The wake-word detector while stopped                                    *)
(***************************************************************************)
\* C39: the wake-word detector never invokes its callback while it is
\* stopped: once stop() or cleanup() has been called, a detection reported
\* by the keyword engine is ignored until start() is called again.
C39_NoCallbackWhileStopped ==
    [][Len(wakeLog'.calls) > Len(wakeLog.calls) => ~wakeLog.stopped]_vars

\* the callback has been invoked once, the detector was cleaned up, and a
\* detection that arrived afterwards was ignored
C39_Witness ==
    /\ wakeLog.stopped /\ ~wwIsInitialized /\ ~wwIsListening
    /\ Len(wakeLog.calls) = 1
    /\ wakeLog.unheard > 0

(***************************************************************************)
(* Questions that normalize to nothing                                     *)
(***************************************************************************)
\* C40: a transcript that is not blank but normalizes to the empty string
\* (punctuation only) matches no entry of the loaded knowledge base, so
\* getAnswer returns the default response for it.
C40_PunctuationOnlyGetsDefault ==
    (/\ asked.asked /\ asked.found.log # "not loaded"
     /\ trim(asked.question) # <<>>
     /\ normalize(asked.question) = <<>>)
        => (~asked.found.answer.found /\ asked.answer = getDefaultResponse)

====
